---- MODULE Spec2Model ----
(***************************************************************************)
(* Frame orchestration of the map renderer: the Painter of                 *)
(* src/MapboxGl-v1实现/mapbox-v1实现/src/render/painter.js.                *)
(*                                                                         *)
(* Three specifications share the variables:                               *)
(*   SpecAlloc  the stencil allocator driven by arbitrary call sequences   *)
(*              (clearStencil, _renderTileClippingMasks,                   *)
(*              stencilConfigForOverlap);                                  *)
(*   SpecDepth  depthModeForSublayer applied to bounded inputs;            *)
(*   Spec       Painter.render, one step per loop iteration.               *)
(***************************************************************************)
EXTENDS Integers, Sequences, FiniteSets, TLC

VARIABLES
    \* Painter fields (painter.js:96-100, 88)
    nextStencilID,          \* this.nextStencilID
    currentStencilSource,   \* this.currentStencilSource
    tileClippingMaskIDs,    \* this._tileClippingMaskIDs : tile key -> id
    renderPass,             \* this.renderPass
    currentLayer,           \* this.currentLayer
    opaquePassCutoff,       \* this.opaquePassCutoff
    \* What the stencil buffer holds: every reference value handed out since
    \* the last full clear, with the number of times it was handed out.
    live,
    \* The last allocator call: its arguments, the state it started from and
    \* what it did.
    ev,
    \* Allocator calls made since the frame's clear.
    calls,
    \* The last two depthModeForSublayer calls.
    depthA, depthB,
    depthRangeFor3D,        \* this.depthRangeFor3D, its far end
    \* Painter.render in progress
    pc,                     \* position in render
    style,                  \* style._order resolved to layers, bottom first
    coords,                 \* source id -> number of visible tiles, and of
                            \* visible tiles with the symbol fade tiles
    options,                \* PainterOptions
    passes,                 \* the passes entered by this render call, in order
    glog,                   \* what this render call did, in order
    \* Map fields (map.js:282-284) and what the frames read
    styleDirty,             \* this._styleDirty
    sourcesDirty,           \* this._sourcesDirty
    placementDirty,         \* this._placementDirty
    fadeDuration,           \* this._fadeDuration
    now,                    \* browser.now()
    zoom,                   \* transform.zoom
    sourceTiles,            \* the renderable tiles of the symbol source, with
                            \* the opacity their symbols are drawn with
    \* Style fields (style.js:129-134)
    layerOrderChanged,      \* this._layerOrderChanged
    crossTileSymbolIndex,   \* this.crossTileSymbolIndex
    pauseablePlacement,     \* this.pauseablePlacement
    placement,              \* this.placement
    flog,                   \* what the last frame did, in order
    \* Program cache (painter.js:508-515) and the GPU
    cache,                  \* this.cache : key -> program
    programs,               \* the programs created so far
    contextLost,            \* gl.isContextLost()
    gpu,                    \* the bound program and the draw calls issued
    plog,                   \* the last useProgram or draw call
    \* The map's style object (map.js:257) and what it has sent out
    mapStyle,               \* this.style : the fields of the Style
    slog,                   \* the last call on the style or the map
    \* Frame scheduling (map.js:281)
    _frame,                 \* this._frame
    frames,                 \* the callbacks browser.frame holds
    rlog                    \* the last scheduling call and the frames run

stencilVars == <<nextStencilID, currentStencilSource, tileClippingMaskIDs, live, ev, calls>>
depthVars == <<depthA, depthB, depthRangeFor3D>>
frameVars == <<renderPass, currentLayer, opaquePassCutoff>>
renderVars == <<pc, style, coords, options, passes, glog>>
mapVars == <<styleDirty, sourcesDirty, placementDirty, fadeDuration, now, zoom, sourceTiles>>
placementVars == <<layerOrderChanged, crossTileSymbolIndex, pauseablePlacement, placement, flog>>
programVars == <<cache, programs, contextLost, gpu, plog>>
styleVars == <<mapStyle, slog>>
scheduleVars == <<_frame, frames, rlog>>
vars == <<stencilVars, depthVars, frameVars, renderVars, mapVars, placementVars, programVars,
          styleVars, scheduleVars>>

----------------------------------------------------------------------------
(* Values *)

\* JavaScript's undefined, for fields holding strings.
Undefined == "undefined"

\* An unset numeric field: the constructor assigns neither nextStencilID nor
\* currentLayer.
NaN == -1

\* this.opaquePassCutoff = Infinity
Infinity == 1000000

\* The size of the stencil reference space the allocator tests against.
StencilSpace == 256

\* SourceCache.maxUnderzooming and SourceCache.maxOverzooming, with the
\* values mapbox-gl gives them.
maxUnderzooming == 3
maxOverzooming == 10

\* this.numSublayers = SourceCache.maxUnderzooming + SourceCache.maxOverzooming + 1
numSublayers == maxUnderzooming + maxOverzooming + 1

\* this.depthEpsilon = 1 / Math.pow(2, 16). Depth values are kept in units of
\* depthEpsilon: the products and the difference from 1 are exact in double
\* arithmetic, so depth = DepthOne - k stands for 1 - k * depthEpsilon.
DepthOne == 65536

EmptyMap == [x \in {} |-> 0]

----------------------------------------------------------------------------
(* Bounds *)

\* Sources of a style.
Sources == {"source1", "source2"}

\* The sources of the style a render call is given.
RenderSources == {"source1"}

\* Layers of a style in the depth computation.
MaxDepthLayers == 3

\* Allocator calls between two frame clears.
MaxCalls == 3

\* Tiles handed to one clip-mask call: a few, and counts around the size of
\* the stencil space.
MaxSmallTiles == 1
\* The visible tiles of the scenario "257 tiles for one clipped layer".
ScenarioTiles == 257
TileCounts == (0..MaxSmallTiles) \cup {128, 255, ScenarioTiles}

\* overscaledZ of the tiles handed to one overlap call, in any order.
OverlapInputs == {<<0>>, <<0, 1>>, <<1, 0>>, <<0, 22>>, <<22, 0>>, <<22, 22>>}

\* Layers in a style order, and visible tiles of a source, in a render call.
MaxLayers == 3
MaxTiles == 1

\* The fadeDuration option in clock ticks (300 ms by default), and the time
\* the clock runs to.
FadeTicks == 2
MaxTime == 2

\* Buckets one continuePlacement call places before its deadline.
MaxBudget == 2

\* Programs one painter creates, and draw calls it issues.
MaxPrograms == 2

\* triggerRepaint calls between two frames.
MaxRepaints == 3
MaxDraws == 2

----------------------------------------------------------------------------
(* Stencil clip allocator *)

\* The allocator's part of the painter while one call runs, with what the call
\* has drawn so far.
Ctx ==
    [nextStencilID |-> nextStencilID,
     currentStencilSource |-> currentStencilSource,
     tileClippingMaskIDs |-> tileClippingMaskIDs,
     live |-> live,
     clears |-> 0,
     masks |-> 0]

\* The reference values `handed` written to the stencil buffer, once each.
HandOut(lv, handed) ==
    [v \in DOMAIN lv \cup handed |->
        (IF v \in DOMAIN lv THEN lv[v] ELSE 0) + (IF v \in handed THEN 1 ELSE 0)]

clearStencilFromZero(c) ==
    [c EXCEPT !.nextStencilID = 0,
              !.currentStencilSource = Undefined,
              !.live = EmptyMap,
              !.clears = @ + 1]
clearStencil(c) ==
    [c EXCEPT !.nextStencilID = 1,
              !.currentStencilSource = Undefined,
              !.live = EmptyMap,
              !.clears = @ + 1]

\* StyleLayer.isTileClipped()
isTileClipped(layer) == layer.clipped

\* if (this.nextStencilID + requested > 256): "we'll run out of fresh IDs so
\* we need to clear and start from scratch"
OutOfFreshIDsOffByOne(next, requested) == next + requested >= StencilSpace
OutOfFreshIDs(next, requested) == next + requested > StencilSpace

\* The id the loop gives the k-th tile: this.nextStencilID++ once per tile.
MaskIDNoIncrement(base, k) == base
MaskID(base, k) == base + (k - 1)

\* this.nextStencilID += stencilValues
AfterOverlapNoAdvance(next, stencilValues) == next
AfterOverlap(next, stencilValues) == next + stencilValues

\* for (const tileID of tileIDs) {
\*     const id = this._tileClippingMaskIDs[tileID.key] = this.nextStencilID++;
\*     program.draw(... StencilMode(ALWAYS, id, REPLACE) ...) }
\* A visible-tile list holds each tile once; a tile's key is its place in the
\* list.
AssignMasks(c, tileIDs) ==
    LET base == c.nextStencilID
        n == Len(tileIDs)
    IN [c EXCEPT !.tileClippingMaskIDs = [k \in 1..n |-> MaskID(base, k)],
                 !.nextStencilID = base + n,
                 !.live = HandOut(@, {MaskID(base, k) : k \in 1..n}),
                 !.masks = @ + n]

MasksSkipped(c, layer, tileIDs) ==
    \/ c.currentStencilSource = layer.source
    \/ ~isTileClipped(layer)
    \/ Len(tileIDs) = 0

_renderTileClippingMasks(c, layer, tileIDs) ==
    IF MasksSkipped(c, layer, tileIDs) THEN c
    ELSE LET c1 == [c EXCEPT !.currentStencilSource = layer.source]
             c2 == IF OutOfFreshIDs(c1.nextStencilID, Len(tileIDs))
                   THEN clearStencil(c1) ELSE c1
             c3 == [c2 EXCEPT !.tileClippingMaskIDs = EmptyMap]
         IN AssignMasks(c3, tileIDs)

\* tileIDs.sort((a, b) => b.overscaledZ - a.overscaledZ): a stable sort.
RECURSIVE InsertDesc(_, _)
InsertDesc(z, s) ==
    IF s = <<>> THEN <<z>>
    ELSE IF z > Head(s) THEN <<z>> \o s
    ELSE <<Head(s)>> \o InsertDesc(z, Tail(s))

RECURSIVE SortDesc(_)
SortDesc(s) ==
    IF s = <<>> THEN <<>>
    ELSE InsertDesc(s[Len(s)], SortDesc(SubSeq(s, 1, Len(s) - 1)))

\* stencilConfigForOverlap: the context after the call and zToStencilMode as
\* overscaledZ -> reference value (the empty map when the stencil test is
\* disabled).
stencilConfigForOverlap(c, tileZs) ==
    LET sorted == SortDesc(tileZs)
        minTileZ == sorted[Len(sorted)]
        stencilValues == sorted[1] - minTileZ + 1
    IN IF stencilValues > 1
       THEN LET c1 == [c EXCEPT !.currentStencilSource = Undefined]
                c2 == IF OutOfFreshIDs(c1.nextStencilID, stencilValues)
                      THEN clearStencil(c1) ELSE c1
                zToStencilMode ==
                    [z \in minTileZ..(minTileZ + stencilValues - 1) |->
                        (z - minTileZ) + c2.nextStencilID]
                handed == {zToStencilMode[z] : z \in DOMAIN zToStencilMode}
            IN [ctx |-> [c2 EXCEPT !.nextStencilID = AfterOverlap(@, stencilValues),
                                   !.live = HandOut(@, handed)],
                modes |-> zToStencilMode,
                coords |-> sorted]
       ELSE [ctx |-> c, modes |-> EmptyMap, coords |-> sorted]

----------------------------------------------------------------------------
(* The allocator driven by call sequences *)

NoEvent ==
    [op |-> "none", source |-> Undefined, clipped |-> FALSE, n |-> 0,
     preID |-> NaN, preSource |-> Undefined, skipped |-> TRUE,
     clears |-> 0, masks |-> 0, first |-> NaN, refs |-> EmptyMap]

Apply(c) ==
    /\ nextStencilID' = c.nextStencilID
    /\ currentStencilSource' = c.currentStencilSource
    /\ tileClippingMaskIDs' = c.tileClippingMaskIDs
    /\ live' = c.live

\* The tile keys of a visible-tile list of n tiles.
TileKeys(n) == [k \in 1..n |-> k]

\* render clears the stencil before the first allocation of a frame
\* (painter.js:374).
FrameClear ==
    LET c == clearStencil(Ctx)
    IN /\ Apply(c)
       /\ ev' = [NoEvent EXCEPT !.op = "clear", !.preID = nextStencilID,
                                !.preSource = currentStencilSource,
                                !.skipped = FALSE, !.clears = c.clears]
       /\ calls' = 0
       /\ UNCHANGED <<mapVars, placementVars, programVars, styleVars, scheduleVars, depthVars, frameVars, renderVars>>

CallMasks ==
    /\ nextStencilID # NaN
    /\ calls < MaxCalls
    /\ calls' = calls + 1
    /\ \E src \in Sources, cl \in BOOLEAN, n \in TileCounts :
        LET layer == [source |-> src, clipped |-> cl]
            c == _renderTileClippingMasks(Ctx, layer, TileKeys(n))
        IN /\ Apply(c)
           /\ ev' = [op |-> "masks", source |-> src, clipped |-> cl, n |-> n,
                     preID |-> nextStencilID, preSource |-> currentStencilSource,
                     skipped |-> MasksSkipped(Ctx, layer, TileKeys(n)),
                     clears |-> c.clears, masks |-> c.masks,
                     first |-> IF MasksSkipped(Ctx, layer, TileKeys(n))
                               THEN NaN ELSE c.tileClippingMaskIDs[1],
                     refs |-> IF MasksSkipped(Ctx, layer, TileKeys(n))
                              THEN EmptyMap ELSE c.tileClippingMaskIDs]
    /\ UNCHANGED <<mapVars, placementVars, programVars, styleVars, scheduleVars, depthVars, frameVars, renderVars>>

CallOverlap ==
    /\ nextStencilID # NaN
    /\ calls < MaxCalls
    /\ calls' = calls + 1
    /\ \E zs \in OverlapInputs :
        LET r == stencilConfigForOverlap(Ctx, zs)
            lo == r.coords[Len(r.coords)]
            hi == r.coords[1]
        IN /\ Apply(r.ctx)
           /\ ev' = [op |-> "overlap", source |-> Undefined, clipped |-> FALSE,
                     n |-> hi - lo + 1,
                     preID |-> nextStencilID, preSource |-> currentStencilSource,
                     skipped |-> (r.modes = EmptyMap),
                     clears |-> r.ctx.clears, masks |-> 0,
                     first |-> IF r.modes = EmptyMap THEN NaN ELSE r.modes[lo],
                     refs |-> r.modes]
    /\ UNCHANGED <<mapVars, placementVars, programVars, styleVars, scheduleVars, depthVars, frameVars, renderVars>>

\* The painter after its constructor (painter.js:109-121).
InitPainter ==
    /\ nextStencilID = NaN
    /\ currentStencilSource = Undefined
    /\ tileClippingMaskIDs = EmptyMap
    /\ renderPass = Undefined
    /\ currentLayer = NaN
    /\ opaquePassCutoff = NaN
    /\ live = EmptyMap
    /\ ev = NoEvent
    /\ calls = 0

\* A style without a placement pass and without a committed placement: the
\* constructor assigns neither pauseablePlacement nor placement.
NoPass == [exists |-> FALSE]
NoPlacement == [defined |-> FALSE]

\* new CrossTileSymbolIndex()
EmptyIndex == [layers |-> EmptyMap, maxCrossTileID |-> 0]

\* The map and its style after their constructors, for a fadeDuration option.
InitMap(fd) ==
    /\ styleDirty = FALSE
    /\ sourcesDirty = FALSE
    /\ placementDirty = FALSE
    /\ fadeDuration = fd
    /\ now = 0
    /\ zoom = 0
    /\ sourceTiles = EmptyMap
    /\ layerOrderChanged = FALSE
    /\ crossTileSymbolIndex = EmptyIndex
    /\ pauseablePlacement = NoPass
    /\ placement = NoPlacement
    /\ flog = <<>>

NoCall == [op |-> "none"]
NoProgram == 0

\* A painter that has used no program: this.cache is created by the first
\* useProgram call.
InitPrograms ==
    /\ cache = EmptyMap
    /\ programs = <<>>
    /\ contextLost = FALSE
    /\ gpu = [program |-> NoProgram, draws |-> 0, invalidated |-> 0]
    /\ plog = NoCall

\* new Style(map, options): the constructor's assignments and _resetUpdates.
NoStylesheet == [defined |-> FALSE]
NewStyle ==
    [_loaded |-> FALSE, _request |-> NoStylesheet, stylesheet |-> NoStylesheet,
     sourceCaches |-> EmptyMap, _layers |-> EmptyMap, _order |-> <<>>,
     _layerOrderChanged |-> FALSE, _changed |-> FALSE,
     _updatedLayers |-> <<>>, _removedLayers |-> EmptyMap,
     _updatedSources |-> EmptyMap, _serializedLayers |-> EmptyMap]

\* A map whose style was constructed and has not loaded.
InitStyle ==
    /\ mapStyle = NewStyle
    /\ slog = NoCall

\* A map that has asked for no frame.
NoFrame == 0
NoSchedule ==
    [op |-> "none", calls |-> 0, asked |-> 0, renders |-> 0, coalesced |-> 0,
     pending |-> 0]
InitSchedule ==
    /\ _frame = NoFrame
    /\ frames = {}
    /\ rlog = NoSchedule

NoDepthCall == [layer |-> NaN, n |-> 0, enabled |-> FALSE, depth |-> 0]

\* A painter that has rendered nothing, on a map that has run no frame.
InitNoRender ==
    /\ depthA = NoDepthCall
    /\ depthB = NoDepthCall
    /\ depthRangeFor3D = NaN
    /\ pc = "idle"
    /\ style = <<>>
    /\ coords = [s \in RenderSources |-> [visible |-> 0, symbol |-> 0]]
    /\ options = [showTileBoundaries |-> FALSE]
    /\ passes = <<>>
    /\ glog = <<>>
    /\ InitMap(FadeTicks)
    /\ InitPrograms

InitIdle ==
    /\ InitNoRender
    /\ InitStyle
    /\ InitSchedule

InitAlloc == InitPainter /\ InitIdle

NextAlloc == FrameClear \/ CallMasks \/ CallOverlap

SpecAlloc == InitAlloc /\ [][NextAlloc]_vars

Range(f) == {f[x] : x \in DOMAIN f}
Injective(f) == Cardinality(Range(f)) = Cardinality(DOMAIN f)

\* An allocation request that was not skipped: a clip-mask call that drew
\* masks, or an overlap call that needed more than one zoom level.
Allocated == ev.op \in {"masks", "overlap"} /\ ~ev.skipped

\* C1: no stencil reference value is live for two tiles at once: the values
\* one clip-mask call gives its tiles are pairwise distinct, and no value is
\* handed out a second time before the next full stencil clear.
C1_NoValueLiveTwice ==
    /\ \A v \in DOMAIN live : live[v] = 1
    /\ Injective(tileClippingMaskIDs)
    /\ Allocated => Injective(ev.refs)

\* C1's case: values of two requests are live together (an overlap request
\* that followed a clip-mask call without a clear in between).
C1_Witness ==
    /\ ev.op = "overlap" /\ ~ev.skipped /\ ev.clears = 0
    /\ DOMAIN tileClippingMaskIDs # {}
    /\ Range(tileClippingMaskIDs) \subseteq DOMAIN live
    /\ Range(ev.refs) \subseteq DOMAIN live

\* C2: a request that is not skipped and starts with nextStencilID + n > 256
\* clears the stencil once and restarts at 1 before it hands out its first
\* value; a request with nextStencilID + n <= 256 clears nothing and
\* continues at nextStencilID.
C2_ClearExactlyOnOverflow ==
    Allocated =>
        /\ ev.clears = (IF ev.preID + ev.n > StencilSpace THEN 1 ELSE 0)
        /\ ev.clears = 1 =>
              /\ ev.first = 1
              /\ DOMAIN live = 1..ev.n
              /\ nextStencilID = 1 + ev.n
        /\ ev.clears = 0 =>
              /\ ev.first = ev.preID
              /\ nextStencilID = ev.preID + ev.n

\* C2's case: the smallest overflowing request, nextStencilID + n = 257.
C2_Witness ==
    /\ Allocated /\ ev.preID + ev.n = StencilSpace + 1 /\ ev.clears = 1

\* C3 as claimed: a clip-mask call for 257 tiles clears the stencil exactly
\* once and gives the tiles pairwise distinct values within [1, 256].
C3_Claimed ==
    (ev.op = "masks" /\ ~ev.skipped /\ ev.n = ScenarioTiles) =>
        /\ ev.clears = 1
        /\ Injective(ev.refs)
        /\ Range(ev.refs) \subseteq 1..StencilSpace

\* C3 amended: a clip-mask call for 257 tiles clears the stencil exactly once
\* before assigning and gives the tiles the pairwise distinct values 1..257,
\* the last of which lies outside [1, 256].
C3_DistinctBeyondSpace ==
    (ev.op = "masks" /\ ~ev.skipped /\ ev.n = ScenarioTiles) =>
        /\ ev.clears = 1
        /\ ev.first = 1
        /\ ev.masks = ScenarioTiles
        /\ Injective(ev.refs)
        /\ Range(ev.refs) = 1..ScenarioTiles
        /\ tileClippingMaskIDs = ev.refs

C3_Witness ==
    ev.op = "masks" /\ ~ev.skipped /\ ev.n = ScenarioTiles /\ ev.preID > 1

\* The second call is a no-op whenever the first one did not have to clear.
C4_NoOpUnlessCleared ==
    [][(/\ ev.op = "masks" /\ ~ev.skipped /\ ev.clears = 0
        /\ calls' = calls + 1
        /\ ev'.op = "masks"
        /\ ev'.source = ev.source /\ ev'.clipped = ev.clipped /\ ev'.n = ev.n)
       => (/\ UNCHANGED <<nextStencilID, currentStencilSource, tileClippingMaskIDs>>
           /\ ev'.masks = 0 /\ ev'.clears = 0)]_vars

\* C4: a clip-mask call that directly follows a clip-mask call that drew
\* masks for the same source and the same tiles changes nothing and draws
\* nothing.
C4_SecondCallNoOp ==
    [][(/\ ev.op = "masks" /\ ~ev.skipped
        /\ calls' = calls + 1
        /\ ev'.op = "masks"
        /\ ev'.source = ev.source /\ ev'.clipped = ev.clipped /\ ev'.n = ev.n)
       => (/\ UNCHANGED <<nextStencilID, currentStencilSource, tileClippingMaskIDs>>
           /\ ev'.masks = 0 /\ ev'.clears = 0)]_vars


----------------------------------------------------------------------------
(* Depth of a sublayer *)

opaquePassEnabledAtCutoff(cur, cutoff) == cur <= cutoff
opaquePassEnabledForLayer(cur, cutoff) == cur < cutoff

\* (1 + this.currentLayer) * this.numSublayers + n
SublayerSlotNoStride(cur, n) == (1 + cur) + n
SublayerSlot(cur, n) == (1 + cur) * numSublayers + n

\* depthModeForSublayer(n, mask, func) for this.currentLayer = cur: the depth
\* mode disabled, or the depth value of DepthMode(func, mask, [depth, depth]).
depthModeForSublayer(cur, cutoff, n) ==
    IF ~opaquePassEnabledForLayer(cur, cutoff)
    THEN [layer |-> cur, n |-> n, enabled |-> FALSE, depth |-> 0]
    ELSE [layer |-> cur, n |-> n, enabled |-> TRUE,
          depth |-> DepthOne - SublayerSlot(cur, n)]

\* this.depthRangeFor3D = [0, 1 - ((style._order.length + 2) *
\*     this.numSublayers * this.depthEpsilon)]: the far end of the range.
DepthRangeFarNoMargin(order) == DepthOne - Len(order) * numSublayers
DepthRangeFar(order) == DepthOne - (Len(order) + 2) * numSublayers

\* render computes the cutoff before the passes (painter.js:344-351): the
\* index of the first 3-D layer, or Infinity.
SetCutoff ==
    /\ \E c \in (0..(MaxDepthLayers - 1)) \cup {Infinity} : opaquePassCutoff' = c
    /\ UNCHANGED <<mapVars, placementVars, programVars, styleVars, scheduleVars, stencilVars, depthVars, renderPass, currentLayer, renderVars>>

\* A draw routine asks for the depth mode of sublayer n of the current layer.
DepthCall ==
    /\ opaquePassCutoff # NaN
    /\ \E i \in 0..(MaxDepthLayers - 1), n \in 0..(numSublayers - 1) :
        /\ currentLayer' = i
        /\ depthA' = depthModeForSublayer(i, opaquePassCutoff, n)
        /\ depthB' = depthA
    /\ UNCHANGED <<mapVars, placementVars, programVars, styleVars, scheduleVars, stencilVars, renderPass, opaquePassCutoff, renderVars, depthRangeFor3D>>

NextDepth == SetCutoff \/ DepthCall

SpecDepth == InitAlloc /\ [][NextDepth]_vars

\* C5: of two depth values computed with the depth test enabled, the one of
\* the higher layer index is strictly smaller, whatever the sublayers; in
\* particular depth(i, j) > depth(i+1, 0).
C5_DepthDecreasesWithLayer ==
    (depthA.enabled /\ depthB.enabled /\ depthA.layer > depthB.layer)
        => depthB.depth > depthA.depth

\* C5's tightest case: the last sublayer of layer i against sublayer 0 of
\* layer i + 1.
C5_Witness ==
    /\ depthA.enabled /\ depthB.enabled
    /\ depthA.layer = depthB.layer + 1
    /\ depthA.n = 0 /\ depthB.n = numSublayers - 1

----------------------------------------------------------------------------
(* Painter.render *)

\* The layer types of a style.
LayerTypes == {"fill", "line", "symbol", "raster", "circle", "background", "custom"}

\* Layers without a source: layer.source is undefined.
SourcelessTypes == {"background", "custom"}

\* StyleLayer.isTileClipped() and is3D() by layer type.
ClippedTypes == {"fill", "line"}
ThreeDTypes == {"fill-extrusion"}

\* const draw = { circle, raster }
draw == {"circle", "raster"}

\* A style layer. None of the layer types above renders off the main
\* framebuffer (a custom layer does only when it has a prerender method):
\* the layers of the bounded styles have no offscreen pass.
Layer(type, source, hidden) ==
    [type |-> type, source |-> source, hidden |-> hidden,
     clipped |-> type \in ClippedTypes, offscreen |-> FALSE]

Layers ==
    {Layer(t, src, h) : t \in LayerTypes \ SourcelessTypes, src \in RenderSources,
                        h \in BOOLEAN}
    \cup {Layer(t, Undefined, h) : t \in SourcelessTypes, h \in BOOLEAN}

Styles == UNION {[1..n -> Layers] : n \in 0..MaxLayers}

\* sourceCache.getVisibleCoordinates() and getVisibleCoordinates(true): the
\* symbol list holds the visible tiles and the tiles kept for fading.
CoordChoices ==
    {[visible |-> v, symbol |-> m] : v \in 0..MaxTiles, m \in 0..MaxTiles} \
    {c \in [visible : 0..MaxTiles, symbol : 0..MaxTiles] : c.symbol < c.visible}

hasOffscreenPass(layer) == layer.offscreen
is3D(layer) == layer.type \in ThreeDTypes
isHidden(layer) == layer.hidden

\* coordsAscending[layer.source] / coordsDescending[layer.source]: the same
\* tiles in the two orders; undefined for a layer without a source, which
\* has no length to read.
VisibleTiles(source) ==
    IF source = Undefined THEN <<>> ELSE TileKeys(coords[source].visible)

\* coordsDescendingSymbol[layer.source]
SymbolTiles(source) ==
    IF source = Undefined THEN <<>> ELSE TileKeys(coords[source].symbol)

Event(pass, op, layer, n, result) ==
    [pass |-> pass, op |-> op, layer |-> layer, n |-> n, result |-> result]

\* renderLayer(painter, sourceCache, layer, coords): "skipped" on an early
\* return, "drawn" when draw[layer.type] is called, "TypeError" when
\* draw[layer.type] is undefined and the call throws.
renderLayer(layer, tiles) ==
    IF isHidden(layer) THEN "skipped"
    ELSE IF layer.type # "background" /\ layer.type # "custom" /\ Len(tiles) = 0
    THEN "skipped"
    ELSE IF layer.type \in draw THEN "drawn"
    ELSE "TypeError"

\* The opaquePassCutoff loop: the index of the first 3-D layer of the order.
OpaquePassCutoff(order) ==
    IF \E i \in 1..Len(order) : is3D(order[i])
    THEN (CHOOSE i \in 1..Len(order) :
            is3D(order[i]) /\ \A j \in 1..(i - 1) : ~is3D(order[j])) - 1
    ELSE Infinity

\* A pass in progress: the allocator, the log, the loop index and whether a
\* call threw.
Loop(c, log) == [ctx |-> c, log |-> log, cur |-> NaN, thrown |-> FALSE]

FreshCall(c) == [c EXCEPT !.clears = 0, !.masks = 0]

\* for (const layerId of layerIds) { ... } of the offscreen pass, from the
\* layer of index i on.
RECURSIVE OffscreenFrom(_, _)
OffscreenFrom(r, i) ==
    IF i >= Len(style) THEN r
    ELSE LET layer == style[i + 1]
             tiles == VisibleTiles(layer.source)
         IN IF ~hasOffscreenPass(layer) \/ isHidden(layer) THEN OffscreenFrom(r, i + 1)
            ELSE IF layer.type # "custom" /\ Len(tiles) = 0 THEN OffscreenFrom(r, i + 1)
            ELSE LET res == renderLayer(layer, tiles)
                     r1 == [r EXCEPT !.log = Append(@,
                               Event("offscreen", "renderLayer", i, Len(tiles), res))]
                 IN IF res = "TypeError" THEN [r1 EXCEPT !.thrown = TRUE]
                    ELSE OffscreenFrom(r1, i + 1)

\* One iteration of the opaque or the translucent loop for the layer of
\* index i: the clip masks, then the layer.
LayerStep(r, pass, i) ==
    LET layer == style[i + 1]
        tiles == IF pass = "translucent" /\ layer.type = "symbol"
                 THEN SymbolTiles(layer.source) ELSE VisibleTiles(layer.source)
        c == _renderTileClippingMasks(FreshCall(r.ctx), layer, VisibleTiles(layer.source))
        res == renderLayer(layer, tiles)
    IN [ctx |-> c,
        log |-> r.log \o <<Event(pass, "clip", i, c.masks, "ok"),
                           Event(pass, "renderLayer", i, Len(tiles), res)>>,
        cur |-> i,
        thrown |-> res = "TypeError"]

\* for (this.currentLayer = layerIds.length - 1; this.currentLayer >= 0; this.currentLayer--)
RECURSIVE OpaqueFrom(_, _)
OpaqueFrom(r, i) ==
    IF i < 0 THEN [r EXCEPT !.cur = i]
    ELSE LET r1 == LayerStep(r, "opaque", i)
         IN IF r1.thrown THEN r1 ELSE OpaqueFrom(r1, i - 1)

\* for (this.currentLayer = 0; this.currentLayer < layerIds.length; this.currentLayer++)
RECURSIVE TranslucentFrom(_, _)
TranslucentFrom(r, i) ==
    IF i >= Len(style) THEN [r EXCEPT !.cur = i]
    ELSE LET r1 == LayerStep(r, "translucent", i)
         IN IF r1.thrown THEN r1 ELSE TranslucentFrom(r1, i + 1)

\* render(style, options) up to the offscreen pass: the cutoff, then
\* this.renderPass = 'offscreen'.
RenderStart ==
    /\ pc \in {"idle", "done", "thrown"}
    /\ opaquePassCutoff' = OpaquePassCutoff(style)
    /\ renderPass' = "offscreen"
    /\ passes' = <<"offscreen">>
    /\ glog' = <<>>
    /\ pc' = "offscreen"
    /\ UNCHANGED <<mapVars, placementVars, programVars, styleVars, scheduleVars, stencilVars, depthVars, currentLayer, style, coords, options>>

OffscreenPass ==
    /\ pc = "offscreen"
    /\ LET r == OffscreenFrom(Loop(Ctx, glog), 0)
       IN /\ glog' = r.log
          /\ pc' = IF r.thrown THEN "thrown" ELSE "clear"
    /\ UNCHANGED <<mapVars, placementVars, programVars, styleVars, scheduleVars, stencilVars, depthVars, frameVars, style, coords, options, passes>>

\* context.clear, this.clearStencil(), this.renderPass = 'opaque' and the
\* opaque loop.
OpaquePass ==
    /\ pc = "clear"
    /\ LET c0 == clearStencil(Ctx)
           log0 == Append(glog, Event("offscreen", "clearStencil", NaN, 0, "ok"))
           r == OpaqueFrom(Loop(c0, log0), Len(style) - 1)
       IN /\ Apply(r.ctx)
          /\ glog' = r.log
          /\ currentLayer' = r.cur
          /\ pc' = IF r.thrown THEN "thrown" ELSE "translucent"
    /\ depthRangeFor3D' = DepthRangeFar(style)
    /\ renderPass' = "opaque"
    /\ passes' = Append(passes, "opaque")
    /\ UNCHANGED <<mapVars, placementVars, programVars, styleVars, scheduleVars, ev, calls, depthA, depthB, opaquePassCutoff, style, coords, options>>

TranslucentPass ==
    /\ pc = "translucent"
    /\ LET r == TranslucentFrom(Loop(Ctx, glog), 0)
       IN /\ Apply(r.ctx)
          /\ glog' = r.log
          /\ currentLayer' = r.cur
          /\ pc' = IF r.thrown THEN "thrown" ELSE "finish"
    /\ renderPass' = "translucent"
    /\ passes' = Append(passes, "translucent")
    /\ UNCHANGED <<mapVars, placementVars, programVars, styleVars, scheduleVars, ev, calls, depthVars, opaquePassCutoff, style, coords, options>>

\* source.maxzoom of the sources of a style.
maxzoom == [s \in Sources |-> IF s = "source1" THEN 14 ELSE 22]

\* The forEach over the style's layers of the showTileBoundaries block: the
\* source selected after the first i layers, given the one selected before.
\* The first layer that is not hidden and has a source selects its source; a
\* later one replaces it only with a strictly greater maxzoom.
RECURSIVE SelectFrom(_, _, _)
SelectFrom(order, i, selected) ==
    IF i > Len(order) THEN selected
    ELSE LET layer == order[i]
         IN IF layer.source # Undefined /\ ~isHidden(layer)
            THEN IF selected = Undefined \/ maxzoom[selected] < maxzoom[layer.source]
                 THEN SelectFrom(order, i + 1, layer.source)
                 ELSE SelectFrom(order, i + 1, selected)
            ELSE SelectFrom(order, i + 1, selected)

selectedSource(order) == SelectFrom(order, 1, Undefined)

\* if (this.options.showTileBoundaries) { ... if (selectedSource)
\* draw.debug(this, selectedSource, ...) }: draw has no debug routine, the
\* call throws. Then this.context.setDefault().
Overlay(log) ==
    LET debug == options.showTileBoundaries /\ selectedSource(style) # Undefined
        log1 == IF debug
                THEN Append(log,
                       [Event("translucent", "debug", NaN, 0,
                              IF "debug" \in draw THEN "drawn" ELSE "TypeError")
                        EXCEPT !.layer = selectedSource(style)])
                ELSE log
    IN IF debug /\ "debug" \notin draw
       THEN [log |-> log1, thrown |-> TRUE]
       ELSE [log |-> Append(log1, Event("translucent", "setDefault", NaN, 0, "ok")),
             thrown |-> FALSE]

FinishRender ==
    /\ pc = "finish"
    /\ glog' = Overlay(glog).log
    /\ pc' = IF Overlay(glog).thrown THEN "thrown" ELSE "done"
    /\ UNCHANGED <<mapVars, placementVars, programVars, styleVars, scheduleVars, stencilVars, depthVars, frameVars, style, coords, options, passes>>

\* A painter after its constructor and the arguments its render calls get.
Init ==
    /\ InitPainter
    /\ depthA = NoDepthCall
    /\ depthB = NoDepthCall
    /\ depthRangeFor3D = NaN
    /\ pc = "idle"
    /\ style \in Styles
    /\ coords \in [RenderSources -> CoordChoices]
    /\ options \in [showTileBoundaries : BOOLEAN]
    /\ passes = <<>>
    /\ glog = <<>>
    /\ InitMap(FadeTicks)
    /\ InitPrograms
    /\ InitStyle
    /\ InitSchedule

Next == RenderStart \/ OffscreenPass \/ OpaquePass \/ TranslucentPass \/ FinishRender

Spec == Init /\ [][Next]_vars

\* A layer that renders off the main framebuffer first: a raster layer with
\* a pre-composited effect.
OffscreenLayer(source, hidden) ==
    [Layer("raster", source, hidden) EXCEPT !.offscreen = TRUE]

\* The styles with such layers among circle and fill layers.
OffscreenLayers ==
    {OffscreenLayer(src, h) : src \in RenderSources, h \in BOOLEAN}
    \cup {Layer(t, src, FALSE) : t \in {"circle", "fill"}, src \in RenderSources}

OffscreenStyles == UNION {[1..n -> OffscreenLayers] : n \in 1..MaxLayers}

InitOffscreen ==
    /\ InitPainter
    /\ depthA = NoDepthCall
    /\ depthB = NoDepthCall
    /\ depthRangeFor3D = NaN
    /\ pc = "idle"
    /\ style \in OffscreenStyles
    /\ coords \in [RenderSources -> CoordChoices]
    /\ options \in [showTileBoundaries : BOOLEAN]
    /\ passes = <<>>
    /\ glog = <<>>
    /\ InitMap(FadeTicks)
    /\ InitPrograms
    /\ InitStyle
    /\ InitSchedule

\* The render calls of a painter for a style with offscreen layers.
SpecOffscreen == InitOffscreen /\ [][Next]_vars

----------------------------------------------------------------------------
(* Claims about render *)

FramePasses == <<"offscreen", "opaque", "translucent">>

\* The render call has returned or thrown.
FrameEnded == pc \in {"done", "thrown"}

IsPrefix(a, b) == Len(a) <= Len(b) /\ a = SubSeq(b, 1, Len(a))

LayerEvent(e, pass) == e.pass = pass /\ e.op = "renderLayer"

\* The layer indices renderLayer was called for in a pass, in call order.
RECURSIVE VisitedIn(_, _)
VisitedIn(log, pass) ==
    IF log = <<>> THEN <<>>
    ELSE (IF LayerEvent(Head(log), pass) THEN <<Head(log).layer>> ELSE <<>>)
         \o VisitedIn(Tail(log), pass)

Descending(n) == [k \in 1..n |-> n - k]
Ascending(n) == [k \in 1..n |-> k - 1]

DrawnIn(pass, i) ==
    \E k \in 1..Len(glog) :
        LayerEvent(glog[k], pass) /\ glog[k].layer = i /\ glog[k].result = "drawn"

\* C6 as claimed: every render call enters offscreen, opaque and translucent,
\* in that order, each exactly once.
C6_ThreePassesEveryFrame == FrameEnded => passes = FramePasses

\* What holds of every render call, also one that throws: the passes entered
\* so far are a prefix of offscreen, opaque, translucent, and renderPass is
\* the last of them.
C6_PassesInOrder ==
    /\ IsPrefix(passes, FramePasses)
    /\ passes # <<>> => renderPass = passes[Len(passes)]

\* C7 as claimed: the opaque pass visits every layer once, top to bottom, the
\* translucent pass every layer once, bottom to top, and the clip-mask step
\* of a layer comes right before the layer's draw.
C7_EveryLayerOncePerPass ==
    FrameEnded =>
        /\ VisitedIn(glog, "opaque") = Descending(Len(style))
        /\ VisitedIn(glog, "translucent") = Ascending(Len(style))
        /\ \A k \in 1..Len(glog) :
              (glog[k].op = "renderLayer" /\ glog[k].pass # "offscreen") =>
                  /\ k > 1
                  /\ glog[k - 1].op = "clip"
                  /\ glog[k - 1].layer = glog[k].layer
                  /\ glog[k - 1].pass = glog[k].pass

\* What holds of every render call: the layers visited so far in a pass are
\* the first ones of that pass's order, and each visit follows its clip-mask
\* step.
C7_VisitOrder ==
    /\ IsPrefix(VisitedIn(glog, "opaque"), Descending(Len(style)))
    /\ IsPrefix(VisitedIn(glog, "translucent"), Ascending(Len(style)))
    /\ pc \in {"finish", "done"} =>
          /\ VisitedIn(glog, "opaque") = Descending(Len(style))
          /\ VisitedIn(glog, "translucent") = Ascending(Len(style))
    /\ \A k \in 1..Len(glog) :
          (glog[k].op = "renderLayer" /\ glog[k].pass # "offscreen") =>
              /\ k > 1
              /\ glog[k - 1].op = "clip"
              /\ glog[k - 1].layer = glog[k].layer
              /\ glog[k - 1].pass = glog[k].pass

\* The style [background, fill(source1), symbol(source1)] with one loaded
\* tile in source1.
ScenarioStyle ==
    <<Layer("background", Undefined, FALSE),
      Layer("fill", "source1", FALSE),
      Layer("symbol", "source1", FALSE)>>

InScenario ==
    /\ style = ScenarioStyle
    /\ coords["source1"] = [visible |-> 1, symbol |-> 1]

\* C8 as claimed: in the scenario a render call draws nothing offscreen,
\* draws background and fill in the opaque pass, background with the greater
\* depth value, and draws symbol in the translucent pass.
C8_ScenarioDraws ==
    (InScenario /\ FrameEnded) =>
        /\ \A i \in 0..2 : ~DrawnIn("offscreen", i)
        /\ DrawnIn("opaque", 0)
        /\ DrawnIn("opaque", 1)
        /\ depthModeForSublayer(0, opaquePassCutoff, 0).depth
             > depthModeForSublayer(1, opaquePassCutoff, 0).depth
        /\ DrawnIn("translucent", 2)

\* C9 as claimed: a render call never throws.
C9_RenderNeverThrows == pc # "thrown"

\* A render call that throws does so in a call of an entry draw does not have.
C9_ThrowsOnlyOnMissingRoutine ==
    pc = "thrown" =>
        LET e == glog[Len(glog)]
        IN /\ e.result = "TypeError"
           /\ \/ e.op = "debug"
              \/ e.op = "renderLayer" /\ style[e.layer + 1].type \notin draw

SkipCase(e) ==
    LET layer == style[e.layer + 1]
    IN \/ isHidden(layer)
       \/ e.n = 0 /\ layer.type \notin {"background", "custom"}

\* C10 as claimed: renderLayer skips a hidden layer and a layer without tiles
\* that is neither background nor custom, and hands a background or custom
\* layer that is not hidden to its draw routine, tiles or not.
C10_SkipOrDispatch ==
    \A k \in 1..Len(glog) :
        glog[k].op = "renderLayer" =>
            /\ SkipCase(glog[k]) => glog[k].result = "skipped"
            /\ (style[glog[k].layer + 1].type \in {"background", "custom"}
                /\ ~isHidden(style[glog[k].layer + 1]))
                  => glog[k].result = "drawn"

\* The part of C10 that holds: the skips, and no skip besides them.
C10_SkipsExactly ==
    \A k \in 1..Len(glog) :
        glog[k].op = "renderLayer" =>
            (SkipCase(glog[k]) <=> glog[k].result = "skipped")

\* C11 as claimed: every render call ends with the reset of the GPU state to
\* defaults as its last effect, and with showTileBoundaries set and a source
\* in use the tile-boundary overlay of the source with the highest maxzoom is
\* drawn after the translucent pass, right before that reset.
C11_EndsWithSetDefault ==
    FrameEnded =>
        /\ glog # <<>>
        /\ glog[Len(glog)].op = "setDefault"
        /\ (options.showTileBoundaries /\ selectedSource(style) # Undefined) =>
              /\ Len(glog) > 1
              /\ glog[Len(glog) - 1].op = "debug"
              /\ glog[Len(glog) - 1].result = "drawn"
              /\ glog[Len(glog) - 1].layer = selectedSource(style)
              /\ passes = FramePasses

\* What holds of the end of a render call: a call that returns ends with the
\* reset, and no call with showTileBoundaries set and a source in use returns.
C11_ResetOnReturn ==
    /\ pc = "done" =>
          /\ glog[Len(glog)].op = "setDefault"
          /\ ~(options.showTileBoundaries /\ selectedSource(style) # Undefined)
    /\ \A k \in 1..Len(glog) :
          glog[k].op = "debug" => (k = Len(glog) /\ pc = "thrown" /\ passes = FramePasses)

----------------------------------------------------------------------------
(* Symbol placement: the collaborators of Style._updatePlacement *)

\* The tiles of the symbol source: tile A of the zoom the map starts at and
\* the tile B that replaces it one zoom level up. Both hold the symbol
\* instance with the same content and position key in the bucket of every
\* symbol layer.
TileIDs == {"A", "B"}
overscaledZ == [t \in TileIDs |-> IF t = "A" THEN 0 ELSE 1]

\* Opacity in steps of 1 / FadeTicks.
FullOpacity == FadeTicks

\* A loaded tile: whether the source cache only holds it for the symbol fade,
\* and the opacity its symbol is drawn with per symbol layer (nothing, that
\* is zero, for a layer whose opacities were never written).
LoadedTile == [fading |-> FALSE, opacity |-> EmptyMap]

\* sourceCache.getRenderableIds(true).map(getTileByID).sort(...): the loaded
\* tiles, fade tiles included, by descending overscaledZ.
RenderableTiles(ts) ==
    (IF "B" \in DOMAIN ts THEN <<"B">> ELSE <<>>)
    \o (IF "A" \in DOMAIN ts THEN <<"A">> ELSE <<>>)

\* getVisibleCoordinates() and getVisibleCoordinates(true) of the source.
CoordsOf(ts) ==
    [visible |-> Cardinality({t \in DOMAIN ts : ~ts[t].fading}),
     symbol |-> Cardinality(DOMAIN ts)]

IsSymbol(layer) == layer.type = "symbol"

\* CrossTileSymbolIndex.addLayer for one tile of the list: a bucket that is
\* not indexed yet gives its symbol the identity an indexed tile of the layer
\* holds for the same key, or a fresh one.
IndexTileFresh(ix, id, t) ==
    LET known == IF id \in DOMAIN ix.layers THEN ix.layers[id] ELSE EmptyMap
        cid == ix.maxCrossTileID + 1
    IN IF t \in DOMAIN known THEN [index |-> ix, changed |-> FALSE]
       ELSE [index |-> [layers |-> [l \in DOMAIN ix.layers \cup {id} |->
                                      IF l = id
                                      THEN [u \in DOMAIN known \cup {t} |->
                                               IF u = t THEN cid ELSE known[u]]
                                      ELSE ix.layers[l]],
                        maxCrossTileID |-> cid],
             changed |-> TRUE]
IndexTile(ix, id, t) ==
    LET known == IF id \in DOMAIN ix.layers THEN ix.layers[id] ELSE EmptyMap
    IN IF t \in DOMAIN known THEN [index |-> ix, changed |-> FALSE]
       ELSE LET reuse == DOMAIN known # {}
                cid == IF reuse THEN known[CHOOSE u \in DOMAIN known : TRUE]
                       ELSE ix.maxCrossTileID + 1
                entry == [u \in DOMAIN known \cup {t} |->
                            IF u = t THEN cid ELSE known[u]]
            IN [index |-> [layers |-> [l \in DOMAIN ix.layers \cup {id} |->
                                         IF l = id THEN entry ELSE ix.layers[l]],
                           maxCrossTileID |-> IF reuse THEN ix.maxCrossTileID
                                              ELSE cid],
                changed |-> TRUE]

RECURSIVE IndexTiles(_, _, _, _)
IndexTiles(ix, id, list, changed) ==
    IF list = <<>> THEN [index |-> ix, changed |-> changed]
    ELSE LET r == IndexTile(ix, id, Head(list))
         IN IndexTiles(r.index, id, Tail(list), changed \/ r.changed)

\* crossTileSymbolIndex.addLayer(styleLayer, tiles, lng): the buckets of the
\* listed tiles are added, then the buckets of tiles no longer listed are
\* dropped; true when a bucket was added or dropped.
IndexAddLayer(ix, id, list) ==
    LET r == IndexTiles(ix, id, list, FALSE)
        known == IF id \in DOMAIN r.index.layers THEN r.index.layers[id] ELSE EmptyMap
        listed == {list[k] : k \in 1..Len(list)}
        kept == [u \in DOMAIN known \cap listed |-> known[u]]
    IN [index |-> [r.index EXCEPT !.layers =
                      [l \in DOMAIN r.index.layers \cup {id} |->
                          IF l = id THEN kept ELSE r.index.layers[l]]],
        changed |-> r.changed \/ DOMAIN known # DOMAIN kept]

\* crossTileSymbolIndex.pruneUnusedLayers(this._order)
PruneUnusedLayers(ix, order) ==
    [ix EXCEPT !.layers =
        [l \in DOMAIN ix.layers \cap {order[k].id : k \in 1..Len(order)} |->
            ix.layers[l]]]

\* The cross-tile identity of the symbol in the bucket of a layer and a tile.
CrossTileID(ix, id, t) == ix.layers[id][t]

\* A Placement: the identities placed visible, their opacities once it is
\* committed, and the stale mark.
NewPlacement(z) ==
    [defined |-> TRUE, placed |-> {}, opacities |-> EmptyMap,
     commitTime |-> NaN, zoom |-> z, stale |-> FALSE]

\* placement.setStale()
SetStale(pl) == [pl EXCEPT !.stale = TRUE]

\* placement.stillRecent(now, zoom): a committed placement is recent for a
\* fadeDuration after its commit at the zoom it was made for, unless it was
\* marked stale.
StillRecent(pl, t, z) ==
    /\ ~pl.stale
    /\ pl.zoom = z
    /\ t < pl.commitTime + fadeDuration

\* placement.hasTransitions(now)
HasTransitions(pl, t) == pl.stale \/ t < pl.commitTime + fadeDuration

PrevOpacity(prev, cid) ==
    IF prev.defined /\ cid \in DOMAIN prev.opacities THEN prev.opacities[cid] ELSE 0

Min(a, b) == IF a < b THEN a ELSE b
Max(a, b) == IF a > b THEN a ELSE b

\* placement.commit(now): each identity fades from the opacity the previous
\* placement gave it, in for the identities placed and out for the others,
\* by the time since the previous commit over fadeDuration; at once without
\* a previous placement or with fadeDuration 0.
Commit(pl, prev, t) ==
    LET increment == IF prev.defined /\ fadeDuration # 0
                     THEN Min(FullOpacity, t - prev.commitTime)
                     ELSE FullOpacity
        before == IF prev.defined THEN DOMAIN prev.opacities ELSE {}
        level(cid) == IF cid \in pl.placed
                      THEN Min(FullOpacity, PrevOpacity(prev, cid) + increment)
                      ELSE Max(0, PrevOpacity(prev, cid) - increment)
    IN [pl EXCEPT !.commitTime = t,
                  !.opacities = [cid \in {c \in pl.placed \cup before :
                                             c \in pl.placed \/ level(c) > 0} |->
                                    level(cid)]]

\* new PauseablePlacement(transform, this._order, forceFullPlacement, ...,
\* this.placement): a pass that has placed nothing, with the committed
\* placement as the one it fades from.
NewPass(z, force, prev) ==
    [exists |-> TRUE, force |-> force, done |-> FALSE,
     layerIdx |-> 1, bucketIdx |-> 0,
     placement |-> NewPlacement(z), prev |-> prev]

\* pauseablePlacement.continuePlacement(order, layers, layerTiles): the
\* symbol layers in style order from the position the pass stopped at, one
\* bucket at a time; the deadline is looked at between buckets, a forced pass
\* has none. budget is the number of buckets placed before the deadline;
\* work lists the buckets this call has placed.
RECURSIVE ContinuePlacement(_, _, _, _, _, _)
ContinuePlacement(pp, order, ix, list, budget, work) ==
    IF pp.layerIdx > Len(order) THEN [pp |-> [pp EXCEPT !.done = TRUE], work |-> work]
    ELSE LET layer == order[pp.layerIdx]
         IN IF ~IsSymbol(layer) \/ pp.bucketIdx >= Len(list)
            THEN ContinuePlacement([pp EXCEPT !.layerIdx = @ + 1, !.bucketIdx = 0],
                                   order, ix, list, budget, work)
            ELSE IF budget = 0 /\ ~pp.force THEN [pp |-> pp, work |-> work]
            ELSE LET t == list[pp.bucketIdx + 1]
                 IN ContinuePlacement(
                        [pp EXCEPT !.bucketIdx = @ + 1,
                                   !.placement.placed = @ \cup {CrossTileID(ix, layer.id, t)}],
                        order, ix, list, IF budget = 0 THEN 0 ELSE budget - 1,
                        Append(work, <<layer.id, t>>))

\* The loop over this._order of lines 944-957: every symbol layer is handed
\* to the cross-tile index with the tiles of its source.
RECURSIVE AddSymbolLayers(_, _, _, _, _)
AddSymbolLayers(ix, order, i, list, changed) ==
    IF i > Len(order) THEN [index |-> ix, changed |-> changed]
    ELSE IF ~IsSymbol(order[i]) THEN AddSymbolLayers(ix, order, i + 1, list, changed)
    ELSE LET r == IndexAddLayer(ix, order[i].id, list)
         IN AddSymbolLayers(r.index, order, i + 1, list, changed \/ r.changed)

\* forceFullPlacement = forceFullPlacement || this._layerOrderChanged
\*                      || fadeDuration === 0
ForceFullPlacement(requested, orderChanged, fd) ==
    requested \/ orderChanged \/ fd = 0

\* if (forceFullPlacement || !this.pauseablePlacement
\*     || (this.pauseablePlacement.isDone()
\*         && !this.placement.stillRecent(browser.now(), transform.zoom)))
NeedsNewPlacementAlways(force, pp, pl, t, z) == TRUE
NeedsNewPlacementWhenStale(force, pp, pl, t, z) ==
    \/ force
    \/ ~pp.exists
    \/ ~StillRecent(pl, t, z)
NeedsNewPlacement(force, pp, pl, t, z) ==
    \/ force
    \/ ~pp.exists
    \/ (pp.done /\ ~StillRecent(pl, t, z))

\* if (this.pauseablePlacement.isDone()) {
\*     this.placement = this.pauseablePlacement.commit(browser.now());
\*     placementCommitted = true; }
CommitUnfinished(pp) == TRUE
CommitWhenDone(pp) == pp.done

\* if (symbolBucketsChanged) this.pauseablePlacement.placement.setStale()
StaleNever(pl, symbolBucketsChanged) == pl
StaleIfBucketsChanged(pl, symbolBucketsChanged) ==
    IF symbolBucketsChanged THEN SetStale(pl) ELSE pl

\* this.placement.updateLayerOpacities(styleLayer, tiles) for every symbol
\* layer: the symbol of each bucket gets the opacity the placement holds for
\* its identity.
UpdateLayerOpacities(ts, order, ix, pl) ==
    [t \in DOMAIN ts |->
        [ts[t] EXCEPT !.opacity =
            [id \in {order[k].id : k \in {j \in 1..Len(order) : IsSymbol(order[j])}} |->
                PrevOpacity(pl, CrossTileID(ix, id, t))]]]

\* The style as _updatePlacement works on it, with what the call has done.
StyleState ==
    [order |-> style, layerOrderChanged |-> layerOrderChanged,
     index |-> crossTileSymbolIndex, pp |-> pauseablePlacement,
     pl |-> placement, tiles |-> sourceTiles,
     created |-> FALSE, committed |-> FALSE, bucketsChanged |-> FALSE,
     forced |-> FALSE, from |-> <<0, 0>>, work |-> <<>>, needsRerender |-> FALSE,
     thrown |-> FALSE]

\* Lines 944-958: every symbol layer is handed to the cross-tile index with
\* the tiles of its source, then the index is pruned to the layer order.
Indexed(st, added) ==
    [st EXCEPT !.index = PruneUnusedLayers(added.index, st.order),
               !.bucketsChanged = added.changed]

IndexStep(st) ==
    Indexed(st, AddSymbolLayers(st.index, st.order, 1, RenderableTiles(st.tiles), FALSE))

\* Lines 966-971: a new pass under the condition of line 968, and with it
\* this._layerOrderChanged = false.
Decided(st, force, t, z) ==
    IF NeedsNewPlacement(force, st.pp, st.pl, t, z)
    THEN [st EXCEPT !.forced = force,
                    !.created = TRUE,
                    !.pp = NewPass(z, force, st.pl),
                    !.layerOrderChanged = FALSE]
    ELSE [st EXCEPT !.forced = force]

\* The position the pass of the frame is at before continuePlacement.
Positioned(st) == [st EXCEPT !.from = <<st.pp.layerIdx, st.pp.bucketIdx>>]

CreateStep(st, requested, t, z) ==
    Positioned(Decided(st, ForceFullPlacement(requested, st.layerOrderChanged,
                                              fadeDuration), t, z))

\* Lines 982-985: this.placement = this.pauseablePlacement.commit(now); the
\* pass keeps the placement it has committed.
Committed(st, run, pl) ==
    [st EXCEPT !.pl = pl,
               !.pp = [run.pp EXCEPT !.placement = pl, !.prev = NoPlacement],
               !.committed = TRUE,
               !.work = run.work]

\* Lines 982-992 for the pass continuePlacement has returned.
Continued(st, run, t) ==
    IF CommitWhenDone(run.pp)
    THEN Committed(st, run,
                   StaleIfBucketsChanged(Commit(run.pp.placement, run.pp.prev, t),
                                         st.bucketsChanged))
    ELSE [st EXCEPT !.pp = [run.pp EXCEPT !.placement =
                               StaleIfBucketsChanged(@, st.bucketsChanged)],
                    !.work = run.work]

\* Lines 973-993: a pass that is done has its placement marked stale, a pass
\* in progress is continued.
PlaceStep(st, t, budget) ==
    IF st.pp.done
    THEN [st EXCEPT !.pl = SetStale(@), !.pp.placement = SetStale(st.pl)]
    ELSE Continued(st, ContinuePlacement(st.pp, st.order, st.index,
                                         RenderableTiles(st.tiles), budget, <<>>), t)

\* Lines 995-1001; this.placement.updateLayerOpacities throws on a placement
\* that was never assigned.
OpacityStep(st) ==
    IF st.committed \/ st.bucketsChanged
    THEN [st EXCEPT !.tiles = UpdateLayerOpacities(@, st.order, st.index, st.pl),
                    !.thrown = /\ ~st.pl.defined
                               /\ \E k \in 1..Len(st.order) : IsSymbol(st.order[k])]
    ELSE st

\* Line 1004
RerenderStep(st, t) ==
    [st EXCEPT !.needsRerender = ~st.pp.done \/ HasTransitions(st.pl, t)]

\* Style._updatePlacement(transform, showCollisionBoxes, fadeDuration,
\* crossSourceCollisions, forceFullPlacement) at time t and zoom z.
_updatePlacement(st, requested, t, z, budget) ==
    RerenderStep(OpacityStep(PlaceStep(CreateStep(IndexStep(st), requested, t, z),
                                       t, budget)), t)

----------------------------------------------------------------------------
(* Map._render: one frame *)

\* painter.render(style, options) from its first line to its return or throw.
AfterTranslucent(tr, fin) ==
    [ctx |-> tr.ctx, log |-> fin.log, cur |-> tr.cur,
     passes |-> <<"offscreen", "opaque", "translucent">>, thrown |-> fin.thrown]

AfterOpaque(tr) ==
    IF tr.thrown
    THEN [ctx |-> tr.ctx, log |-> tr.log, cur |-> tr.cur,
          passes |-> <<"offscreen", "opaque", "translucent">>, thrown |-> TRUE]
    ELSE AfterTranslucent(tr, Overlay(tr.log))

AfterOffscreen(op) ==
    IF op.thrown
    THEN [ctx |-> op.ctx, log |-> op.log, cur |-> op.cur,
          passes |-> <<"offscreen", "opaque">>, thrown |-> TRUE]
    ELSE AfterOpaque(TranslucentFrom(Loop(op.ctx, op.log), 0))

AfterStart(off) ==
    IF off.thrown
    THEN [ctx |-> Ctx, log |-> off.log, cur |-> currentLayer,
          passes |-> <<"offscreen">>, thrown |-> TRUE]
    ELSE AfterOffscreen(
             OpaqueFrom(Loop(clearStencil(Ctx),
                             Append(off.log,
                                    Event("offscreen", "clearStencil", NaN, 0, "ok"))),
                        Len(style) - 1))

RenderCall == AfterStart(OffscreenFrom(Loop(Ctx, <<>>), 0))

\* The map and its style while a frame runs, with what the frame has done.
FrameState ==
    [styleDirty |-> styleDirty, sourcesDirty |-> sourcesDirty,
     placementDirty |-> placementDirty, st |-> StyleState,
     rendered |-> FALSE, log |-> <<>>, thrown |-> FALSE]

\* if (this.style && this._styleDirty) { this._styleDirty = false; ...
\*     this.style.update(parameters); }
StyleUpdateStep(f) ==
    IF ~f.styleDirty THEN f
    ELSE [f EXCEPT !.styleDirty = FALSE,
                   !.log = Append(@, [op |-> "style.update", order |-> f.st.order])]

\* if (this.style && this._sourcesDirty) { this._sourcesDirty = false;
\*     this.style._updateSources(this.transform); }
SourcesUpdateStep(f) ==
    IF ~f.sourcesDirty THEN f
    ELSE [f EXCEPT !.sourcesDirty = FALSE,
                   !.log = Append(@, [op |-> "_updateSources"])]

\* this._placementDirty = this.style && this.style._updatePlacement(...)
Placed(f, r) ==
    [f EXCEPT !.st = r,
              !.placementDirty = IF r.thrown THEN @ ELSE r.needsRerender,
              !.thrown = r.thrown,
              !.log = Append(@,
                 [op |-> "_updatePlacement", order |-> r.order,
                  created |-> r.created,
                  committed |-> r.committed,
                  bucketsChanged |-> r.bucketsChanged,
                  forced |-> r.forced, from |-> r.from,
                  work |-> r.work, done |-> r.pp.done])]

PlacementStep(f, budget) ==
    IF f.thrown THEN f
    ELSE Placed(f, _updatePlacement(f.st, FALSE, now, zoom, budget))

\* this.painter.render(this.style, {...}): render reads style.placement in
\* its first lines (symbolFadeChange) and style._order for its loops.
Rendered(f, thrown) ==
    [f EXCEPT !.rendered = f.st.pl.defined,
              !.thrown = thrown,
              !.log = Append(@,
                 [op |-> "painter.render", order |-> f.st.order,
                  placement |-> f.st.pl,
                  result |-> IF thrown THEN "TypeError" ELSE "returned"])]

RenderStep(f) ==
    IF f.thrown THEN f
    ELSE Rendered(f, ~f.st.pl.defined \/ RenderCall.thrown)

RenderThenPlacement(f, budget) == PlacementStep(RenderStep(f), budget)
PlacementThenRender(f, budget) == RenderStep(PlacementStep(f, budget))

\* The rest of _render after painter.render has returned: the render event,
\* the style marked dirty again while it has transitions, the fade tiles
\* released when placement needs no further frame, and another frame asked
\* for when something is dirty.
FrameTail(f, transitions) ==
    IF f.thrown THEN f
    ELSE [f EXCEPT !.styleDirty = @ \/ transitions,
                   !.st.tiles = IF f.placementDirty THEN @
                                ELSE [t \in {u \in DOMAIN @ : ~@[u].fading} |-> @[t]],
                   !.log = @ \o <<[op |-> "render event"]>>
                             \o (IF f.placementDirty THEN <<>>
                                 ELSE <<[op |-> "_releaseSymbolFadeTiles"]>>)
                             \o <<[op |-> IF \/ f.sourcesDirty
                                             \/ f.styleDirty \/ transitions
                                             \/ f.placementDirty
                                          THEN "triggerRepaint" ELSE "idle"]>>]

\* Map._render(paintStartTimeStamp)
_render(f, budget, transitions) ==
    FrameTail(PlacementThenRender(SourcesUpdateStep(StyleUpdateStep(f)), budget),
              transitions)

Budgets == 1..MaxBudget

\* style.hasTransitions() || crossFading at the end of a frame.
Transitions == BOOLEAN

\* The map, the style and the painter after a frame that has run as f, r
\* being what the render call has done.
FrameDone(f, r) ==
    /\ styleDirty' = f.styleDirty
    /\ sourcesDirty' = f.sourcesDirty
    /\ placementDirty' = f.placementDirty
    /\ layerOrderChanged' = f.st.layerOrderChanged
    /\ crossTileSymbolIndex' = f.st.index
    /\ pauseablePlacement' = f.st.pp
    /\ placement' = f.st.pl
    /\ sourceTiles' = f.st.tiles
    /\ coords' = [src \in DOMAIN coords |-> CoordsOf(f.st.tiles)]
    /\ flog' = f.log
    /\ IF f.rendered
       THEN /\ Apply(r.ctx)
            /\ glog' = r.log
            /\ passes' = r.passes
            /\ renderPass' = r.passes[Len(r.passes)]
            /\ currentLayer' = r.cur
            /\ opaquePassCutoff' = OpaquePassCutoff(style)
            /\ depthRangeFor3D' = DepthRangeFar(style)
            /\ pc' = IF r.thrown THEN "thrown" ELSE "done"
       ELSE UNCHANGED <<nextStencilID, currentStencilSource, tileClippingMaskIDs,
                        live, glog, passes, frameVars, pc, depthRangeFor3D>>
    /\ UNCHANGED <<ev, calls, depthA, depthB, style, options, fadeDuration, now, zoom,
                   programVars, styleVars>>

RenderFrame ==
    /\ \E budget \in Budgets, transitions \in Transitions :
          FrameDone(_render(FrameState, budget, transitions), RenderCall)
    /\ UNCHANGED scheduleVars

\* browser.now() between frames.
Tick ==
    /\ now < MaxTime
    /\ now' = now + 1
    /\ UNCHANGED <<styleDirty, sourcesDirty, placementDirty, fadeDuration, zoom,
                   sourceTiles, placementVars, programVars, styleVars, scheduleVars, stencilVars, depthVars,
                   frameVars, renderVars>>

\* The camera zooms in one level: the 'zoom' event handler calls
\* this._update(true).
ZoomTo ==
    /\ zoom < overscaledZ["B"]
    /\ zoom' = zoom + 1
    /\ styleDirty' = TRUE
    /\ sourcesDirty' = TRUE
    /\ UNCHANGED <<placementDirty, fadeDuration, now, sourceTiles, placementVars,
                   programVars, styleVars, scheduleVars, stencilVars, depthVars, frameVars, renderVars>>

\* A tile the source cache asked for has loaded: the 'data' event handler
\* calls this._update(false). Tiles are asked for by _updateSources only,
\* for the zoom of the transform.
LoadTile ==
    /\ pauseablePlacement.exists
    /\ \E t \in TileIDs \ DOMAIN sourceTiles :
        /\ overscaledZ[t] = zoom
        /\ sourceTiles' = [u \in DOMAIN sourceTiles \cup {t} |->
                              IF u = t THEN LoadedTile ELSE sourceTiles[u]]
        /\ coords' = [src \in DOMAIN coords |-> CoordsOf(sourceTiles')]
    /\ sourcesDirty' = TRUE
    /\ UNCHANGED <<styleDirty, placementDirty, fadeDuration, now, zoom, placementVars,
                   programVars, styleVars, scheduleVars, stencilVars, depthVars, frameVars,
                   pc, style, options, passes, glog>>

\* The source cache unloads a tile of another zoom once the tile that
\* replaces it has loaded.
DropTile ==
    /\ \E t \in DOMAIN sourceTiles :
        /\ overscaledZ[t] # zoom
        /\ \E u \in DOMAIN sourceTiles : overscaledZ[u] = zoom
        /\ sourceTiles' = [u \in DOMAIN sourceTiles \ {t} |-> sourceTiles[u]]
        /\ coords' = [src \in DOMAIN coords |-> CoordsOf(sourceTiles')]
    /\ sourcesDirty' = TRUE
    /\ UNCHANGED <<styleDirty, placementDirty, fadeDuration, now, zoom, placementVars,
                   programVars, styleVars, scheduleVars, stencilVars, depthVars, frameVars,
                   pc, style, options, passes, glog>>

\* A layer of a style with its id.
LayerWithId(id, type, source) ==
    [id |-> id, type |-> type, source |-> source, hidden |-> FALSE,
     clipped |-> type \in ClippedTypes, offscreen |-> FALSE]

InsertAt(seq, index, x) ==
    SubSeq(seq, 1, index) \o <<x>> \o SubSeq(seq, index + 1, Len(seq))

\* this._order.indexOf(id), from 0, -1 when the id is not there.
IndexOfNext(order, id) ==
    IF \E i \in 1..Len(order) : order[i] = id
    THEN CHOOSE i \in 1..Len(order) : order[i] = id
    ELSE -1
IndexOf(order, id) ==
    IF \E i \in 1..Len(order) : order[i] = id
    THEN (CHOOSE i \in 1..Len(order) : order[i] = id) - 1
    ELSE -1

\* The ids of the layers of an order.
OrderIds(order) == [k \in 1..Len(order) |-> order[k].id]

\* const index = before ? this._order.indexOf(before) : this._order.length
SpliceIndex(order, before) ==
    IF before # Undefined THEN IndexOf(OrderIds(order), before) ELSE Len(order)

\* map.addLayer(layer, beforeId) for a layer id the style does not have and
\* a beforeId that is omitted or in the style: style.addLayer splices the id
\* into _order at the index of beforeId or at the end and sets
\* _layerOrderChanged; then this._update(true).
AddLayer ==
    /\ \A k \in 1..Len(style) : style[k].id # "circles"
    /\ \E before \in Range(OrderIds(style)) \cup {Undefined} :
          /\ style' = InsertAt(style, SpliceIndex(style, before),
                                LayerWithId("circles", "circle", "source1"))
          /\ slog' = [op |-> "addLayer", arg |-> "circles", before |-> before]
    /\ layerOrderChanged' = TRUE
    /\ styleDirty' = TRUE
    /\ sourcesDirty' = TRUE
    /\ UNCHANGED <<placementDirty, fadeDuration, now, zoom, sourceTiles,
                   crossTileSymbolIndex, pauseablePlacement, placement, flog,
                   programVars, mapStyle, scheduleVars, stencilVars, depthVars, frameVars,
                   pc, coords, options, passes, glog>>

\* The style of the scenario "three symbol layers".
SymbolStyle ==
    <<LayerWithId("symbol1", "symbol", "source1"),
      LayerWithId("symbol2", "symbol", "source1"),
      LayerWithId("symbol3", "symbol", "source1")>>

\* A map whose style has loaded: setStyle and the 'data' event have called
\* _update(true), no frame has run, no tile was asked for.
InitFrame ==
    /\ InitPainter
    /\ depthA = NoDepthCall
    /\ depthB = NoDepthCall
    /\ depthRangeFor3D = NaN
    /\ pc = "idle"
    /\ style = SymbolStyle
    /\ coords = [s \in RenderSources |-> [visible |-> 0, symbol |-> 0]]
    /\ options = [showTileBoundaries |-> FALSE]
    /\ passes = <<>>
    /\ glog = <<>>
    /\ styleDirty = TRUE
    /\ sourcesDirty = TRUE
    /\ placementDirty = FALSE
    /\ fadeDuration \in {0, FadeTicks}
    /\ now = 0
    /\ zoom = 0
    /\ sourceTiles = EmptyMap
    /\ layerOrderChanged = FALSE
    /\ crossTileSymbolIndex = EmptyIndex
    /\ pauseablePlacement = NoPass
    /\ placement = NoPlacement
    /\ flog = <<>>
    /\ InitPrograms
    /\ InitStyle
    /\ InitSchedule

NextFrame == RenderFrame \/ Tick \/ ZoomTo \/ LoadTile \/ DropTile \/ AddLayer

SpecFrame == InitFrame /\ [][NextFrame]_vars

----------------------------------------------------------------------------
(* Claims about frames and symbol placement *)

\* The steps of a frame in the order Map._render takes them.
FrameSteps == <<"style.update", "_updateSources", "_updatePlacement", "painter.render">>

\* The positions in the log of the last frame where a step ran.
At(op) == {k \in 1..Len(flog) : flog[k].op = op}

\* The entry of the last frame's placement step.
PlacementEntry == flog[CHOOSE k \in At("_updatePlacement") : TRUE]
RenderEntry == flog[CHOOSE k \in At("painter.render") : TRUE]

FrameRan == flog # <<>>

\* C12: in every frame the style update, the source update, the placement
\* step and painter.render run in this order, each at most once, the last
\* two in every frame; painter.render reads the layer order the placement
\* step worked on and the placement that step left in style.placement.
C12_FrameOrder ==
    FrameRan =>
        /\ \A i \in 1..Len(FrameSteps) : Cardinality(At(FrameSteps[i])) <= 1
        /\ Cardinality(At("_updatePlacement")) = 1
        /\ Cardinality(At("painter.render")) = 1
        /\ \A i, j \in 1..Len(FrameSteps) :
              i < j => \A a \in At(FrameSteps[i]), b \in At(FrameSteps[j]) : a < b
        /\ RenderEntry.order = PlacementEntry.order
        /\ RenderEntry.placement = placement

\* A frame that ran all four steps and committed a placement of symbols.
C12_Witness ==
    /\ FrameRan
    /\ At("style.update") # {}
    /\ At("_updateSources") # {}
    /\ PlacementEntry.committed
    /\ PlacementEntry.work # <<>>
    /\ RenderEntry.placement.placed # {}


\* The positions of the symbol layers in an order, bottom first.
SymbolPositions(order) == {k \in 1..Len(order) : IsSymbol(order[k])}
FirstSymbol(order) ==
    CHOOSE k \in SymbolPositions(order) : \A j \in SymbolPositions(order) : k <= j
SecondSymbol(order) ==
    CHOOSE k \in SymbolPositions(order) \ {FirstSymbol(order)} :
        \A j \in SymbolPositions(order) \ {FirstSymbol(order)} : k <= j

\* The layers a continuePlacement call has placed buckets of.
LayersOf(work) == {work[k][1] : k \in 1..Len(work)}

\* The running pass stopped at its deadline with the first symbol layer
\* processed and the second one not begun.
PausedAfterFirst ==
    /\ pauseablePlacement.exists
    /\ ~pauseablePlacement.done
    /\ pauseablePlacement.layerIdx = SecondSymbol(style)
    /\ pauseablePlacement.bucketIdx = 0

\* C13: a frame whose placement step stops at the deadline after the first
\* of the three symbol layers leaves style.placement as it was and the pass
\* in progress; the frame after it, unless the layer order has changed in
\* between, keeps that pass and continues at the second layer, placing no
\* bucket of the first layer again.
C13_PauseThenResume ==
    [][RenderFrame =>
          /\ (PausedAfterFirst'
              /\ LayersOf(PlacementEntry'.work) = {style[FirstSymbol(style)].id})
                => /\ ~PlacementEntry'.committed
                   /\ placement' = placement
          /\ (PausedAfterFirst /\ ~layerOrderChanged)
                => /\ ~PlacementEntry'.created
                   /\ PlacementEntry'.from = <<SecondSymbol(style), 0>>
                   /\ PlacementEntry'.work # <<>>
                   /\ PlacementEntry'.work[1][1] = style[SecondSymbol(style)].id
                   /\ style[FirstSymbol(style)].id \notin LayersOf(PlacementEntry'.work)
      ]_vars

\* The frame after the pause: it went on from the second of three symbol
\* layers with the pass it found.
C13_Witness ==
    /\ FrameRan
    /\ Cardinality(SymbolPositions(style)) = 3
    /\ ~PlacementEntry.created
    /\ PlacementEntry.from = <<SecondSymbol(style), 0>>
    /\ PlacementEntry.work # <<>>
    /\ PlacementEntry.work[1][1] = style[SecondSymbol(style)].id


\* A placement without its stale mark: setStale() marks the object in place,
\* it does not replace it.
Core(pl) == IF pl.defined THEN [pl EXCEPT !.stale = FALSE] ELSE pl

\* C14: style.placement, which painter.render reads, is replaced only in a
\* frame whose pass is done, by the placement of that pass; while the pass
\* is partially run, the render of the frame reads the placement committed
\* before, never the one the pass is filling.
C14_CommitOnlyWhenDone ==
    [][RenderFrame =>
          /\ Core(placement') # Core(placement)
                => /\ PlacementEntry'.committed
                   /\ pauseablePlacement'.done
                   /\ placement' = pauseablePlacement'.placement
          /\ ~pauseablePlacement'.done
                => /\ RenderEntry'.placement = placement
                   /\ RenderEntry'.placement # pauseablePlacement'.placement
      ]_vars

\* A frame that left its pass partially run, with symbols placed in it, and
\* whose render read the earlier committed placement of symbols.
C14_Witness ==
    /\ FrameRan
    /\ ~pauseablePlacement.done
    /\ pauseablePlacement.placement.placed # {}
    /\ RenderEntry.placement = placement
    /\ placement.placed # {}
    /\ placement.commitTime # NaN


\* Placement is forced in the frame about to run: Map._render asks for no
\* full placement, so it is the layer order flag or a fadeDuration of 0.
Forced == layerOrderChanged \/ fadeDuration = 0

\* C15: a frame creates a new pass exactly when placement is forced, or no
\* pass exists, or the pass is done and the committed placement is not
\* recent for the time and zoom of the frame; so an unfinished pass is kept
\* unless placement is forced. _layerOrderChanged is cleared by the frames
\* that create a pass and left alone by the others.
C15_NewPassExactlyWhen ==
    [][RenderFrame =>
          /\ PlacementEntry'.forced <=> Forced
          /\ PlacementEntry'.created <=>
                \/ Forced
                \/ ~pauseablePlacement.exists
                \/ /\ pauseablePlacement.done
                   /\ ~StillRecent(placement, now, zoom)
          /\ PlacementEntry'.created => ~layerOrderChanged'
          /\ ~PlacementEntry'.created => layerOrderChanged' = layerOrderChanged
      ]_vars

\* A frame that was not forced replaced a finished pass, whose placement
\* was no longer recent, by a new one and began to place symbols with it.
C15_Witness ==
    /\ FrameRan
    /\ PlacementEntry.created
    /\ ~PlacementEntry.forced
    /\ PlacementEntry.from = <<1, 0>>
    /\ PlacementEntry.work # <<>>
    /\ ~PlacementEntry.done


\* C16: a frame in which symbol buckets changed while its pass was in
\* progress marks the placement of that pass stale; the mark stays while the
\* pass goes on, and the first frame that finds the pass done with a stale
\* placement creates a new pass instead of keeping the result as recent.
C16_ChangedBucketsRestart ==
    [][RenderFrame =>
          /\ (/\ PlacementEntry'.bucketsChanged
              /\ PlacementEntry'.created \/ ~pauseablePlacement.done)
                => pauseablePlacement'.placement.stale
          /\ (/\ pauseablePlacement.exists
              /\ ~pauseablePlacement.done
              /\ pauseablePlacement.placement.stale
              /\ ~PlacementEntry'.created)
                => pauseablePlacement'.placement.stale
          /\ (/\ pauseablePlacement.exists
              /\ pauseablePlacement.done
              /\ pauseablePlacement.placement.stale)
                => PlacementEntry'.created
      ]_vars

\* Buckets changed in a frame that went on with the pass it found and did
\* not finish it: the pass is marked stale while in progress.
C16_Witness ==
    /\ FrameRan
    /\ PlacementEntry.bucketsChanged
    /\ ~PlacementEntry.created
    /\ PlacementEntry.work # <<>>
    /\ ~pauseablePlacement.done
    /\ pauseablePlacement.placement.stale


\* The opacity a loaded tile draws its symbol of a layer with.
OpacityOf(ts, t, id) == IF id \in DOMAIN ts[t].opacity THEN ts[t].opacity[id] ELSE 0

\* C18: when a frame finds a symbol layer's bucket of one tile in the
\* cross-tile index and another tile of the source loaded, the symbol of the
\* other tile has the identity of the first after the frame and is drawn
\* with no less than the opacity the committed placement held for that
\* identity: the fade goes on across the swap, it does not start from zero.
C18_FadeContinuesAcrossTiles ==
    [][RenderFrame =>
          \A id \in DOMAIN crossTileSymbolIndex.layers :
              \A t \in DOMAIN crossTileSymbolIndex.layers[id] :
                  \A u \in DOMAIN sourceTiles \ {t} :
                      /\ crossTileSymbolIndex'.layers[id][u]
                            = crossTileSymbolIndex.layers[id][t]
                      /\ OpacityOf(sourceTiles', u, id)
                            >= PrevOpacity(placement, crossTileSymbolIndex.layers[id][t])
      ]_vars

\* Tile B has joined tile A in the index while A's symbol was fading in: both
\* have one identity and B's symbol is drawn at A's opacity, between zero
\* and full.
C18_Witness ==
    /\ fadeDuration # 0
    /\ DOMAIN sourceTiles = TileIDs
    /\ \E id \in DOMAIN crossTileSymbolIndex.layers :
          /\ DOMAIN crossTileSymbolIndex.layers[id] = TileIDs
          /\ crossTileSymbolIndex.layers[id]["B"] = crossTileSymbolIndex.layers[id]["A"]
          /\ OpacityOf(sourceTiles, "B", id) = OpacityOf(sourceTiles, "A", id)
          /\ OpacityOf(sourceTiles, "B", id) > 0
          /\ OpacityOf(sourceTiles, "B", id) < FullOpacity

----------------------------------------------------------------------------
(* Program cache: Painter.useProgram and Program *)

\* Strings as sequences of characters, so that the template string of
\* useProgram is a concatenation.
Circle == <<"c", "i", "r", "c", "l", "e">>
Raster == <<"r", "a", "s", "t", "e", "r">>
Overdraw == <<"/", "o", "v", "e", "r", "d", "r", "a", "w">>

\* Names of shaders.js that useProgram is called with.
ProgramNames == {Circle, Raster}

\* programConfiguration: null, or a configuration with its cacheKey, which
\* holds "/u_<name>" or "/a_<name>" for each paint property.
NullConfiguration == [null |-> TRUE, cacheKey |-> <<>>]
Configurations ==
    {NullConfiguration}
    \cup {[null |-> FALSE, cacheKey |-> <<"/", "u", "_", "r">>]}

\* const key = `${name}${programConfiguration ? programConfiguration.cacheKey : ''}
\*              ${this._showOverdrawInspector ? '/overdraw' : ''}`
CacheKeyNoOverdraw(name, configuration, showOverdrawInspector) ==
    name \o (IF configuration.null THEN <<>> ELSE configuration.cacheKey)
CacheKey(name, configuration, showOverdrawInspector) ==
    name \o (IF configuration.null THEN <<>> ELSE configuration.cacheKey)
         \o (IF showOverdrawInspector THEN Overdraw ELSE <<>>)

\* new Program(context, name, ...): failedToCreate is set when the context is
\* found lost after creating the fragment shader or the vertex shader.
Program(id, name, configuration, showOverdrawInspector, lostAtFragment, lostAtVertex) ==
    [id |-> id, name |-> name,
     cacheKey |-> IF configuration.null THEN <<>> ELSE configuration.cacheKey,
     overdraw |-> showOverdrawInspector,
     failedToCreate |-> lostAtFragment \/ lostAtVertex]

\* The events the constructor fires and the exceptions it throws when it
\* finds the context lost: it sets failedToCreate and returns.
ConstructorEvents(program) == <<>>
ConstructorThrows(program) == FALSE

\* if (!this.cache[key]): a program object is truthy, failed or not.
CacheMiss(c, key) == key \notin DOMAIN c

\* if (this.failedToCreate) return;
DrawSkippedNever(program) == FALSE
DrawSkipped(program) == program.failedToCreate

\* useProgram(name, programConfiguration) with this._showOverdrawInspector as
\* render left it. The context may get lost while the program is built.
UseProgram ==
    \E name \in ProgramNames, configuration \in Configurations,
       showOverdrawInspector \in BOOLEAN, loseNow \in BOOLEAN :
        LET key == CacheKey(name, configuration, showOverdrawInspector)
            miss == CacheMiss(cache, key)
            new == Program(Len(programs) + 1, name, configuration,
                           showOverdrawInspector, contextLost, contextLost \/ loseNow)
        IN /\ miss => Len(programs) < MaxPrograms
           /\ cache' = IF miss THEN [k \in DOMAIN cache \cup {key} |->
                                        IF k = key THEN new ELSE cache[k]]
                       ELSE cache
           /\ programs' = IF miss THEN Append(programs, new) ELSE programs
           /\ contextLost' = (contextLost \/ (miss /\ loseNow))
           /\ plog' = [op |-> "useProgram", name |-> name,
                       cacheKey |-> IF configuration.null THEN <<>>
                                    ELSE configuration.cacheKey,
                       overdraw |-> showOverdrawInspector,
                       handle |-> cache'[key].id, created |-> miss,
                       events |-> IF miss THEN ConstructorEvents(new) ELSE <<>>,
                       thrown |-> miss /\ ConstructorThrows(new)]
           /\ UNCHANGED <<gpu, stencilVars, depthVars, frameVars, renderVars,
                          mapVars, placementVars, styleVars, scheduleVars>>

\* program.draw(context, ...) on a program useProgram returned:
\* context.program.set(this.program), the modes and uniforms, and a
\* gl.drawElements per segment.
DrawProgram ==
    \E h \in {cache[k].id : k \in DOMAIN cache} :
        /\ gpu.draws < MaxDraws
        /\ gpu' = IF DrawSkipped(programs[h]) THEN gpu
                  ELSE [gpu EXCEPT !.program = h, !.draws = @ + 1]
        /\ plog' = [op |-> "draw", handle |-> h]
        /\ UNCHANGED <<cache, programs, contextLost, stencilVars, depthVars,
                       frameVars, renderVars, mapVars, placementVars, styleVars, scheduleVars>>

\* The webglcontextlost event.
LoseContext ==
    /\ ~contextLost
    /\ contextLost' = TRUE
    /\ plog' = [op |-> "contextlost"]
    /\ UNCHANGED <<cache, programs, gpu, stencilVars, depthVars, frameVars,
                   renderVars, mapVars, placementVars, styleVars, scheduleVars>>

\* this.painter = new Painter(gl, this.transform): the constructor assigns
\* no cache, the first useProgram call of the new painter creates an empty
\* one.
SetupPainterKeepsCache(c) == c
_setupPainter(c) == EmptyMap

\* The webglcontextrestored event: Map._contextRestored sets up a new painter
\* on the restored context, where no program is bound and every program
\* created so far is invalid.
ContextRestored ==
    /\ contextLost
    /\ contextLost' = FALSE
    /\ cache' = _setupPainter(cache)
    /\ gpu' = [gpu EXCEPT !.program = NoProgram, !.invalidated = Len(programs)]
    /\ plog' = [op |-> "contextrestored"]
    /\ UNCHANGED <<programs, stencilVars, depthVars, frameVars, renderVars,
                   mapVars, placementVars, styleVars, scheduleVars>>

NextProgram == UseProgram \/ DrawProgram \/ LoseContext

\* One painter and its program cache.
SpecProgram == InitAlloc /\ [][NextProgram]_vars

\* The map over context losses and restorations, a new painter each time.
NextContext == NextProgram \/ ContextRestored

SpecContext == InitAlloc /\ [][NextContext]_vars

\* The composite key a program was created for.
CompositeKey(r) == <<r.name, r.cacheKey, r.overdraw>>

\* C19: useProgram returns, for a composite key (name, cacheKey, overdraw
\* flag), the one program that was created for that key: at most one program
\* is ever created per key, a program is created only when the cache has none
\* for the key, and the handle returned for a key is never one created for a
\* different key.
C19_OneProgramPerKey ==
    /\ \A i, j \in 1..Len(programs) :
          CompositeKey(programs[i]) = CompositeKey(programs[j]) => i = j
    /\ \A k \in DOMAIN cache : programs[cache[k].id] = cache[k]
    /\ plog.op = "useProgram" =>
          /\ plog.handle \in 1..Len(programs)
          /\ CompositeKey(programs[plog.handle]) = CompositeKey(plog)
          /\ plog.created => plog.handle = Len(programs)

\* C19's case: a second key is asked for after programs differing from it in
\* one component each are cached, and a cached key is asked for again.
C19_Witness ==
    /\ plog.op = "useProgram" /\ ~plog.created
    /\ Len(programs) = MaxPrograms
    /\ \E i, j \in 1..Len(programs) :
          /\ i # j
          /\ programs[i].name = programs[j].name
          /\ programs[i].cacheKey = programs[j].cacheKey
          /\ programs[i].overdraw # programs[j].overdraw

C21_FailureFiresEvent ==
    (/\ plog.op = "useProgram"
     /\ plog.created
     /\ programs[plog.handle].failedToCreate)
        => plog.events # <<>>

\* The creation of a program throws nothing, failed or not, so the frame it
\* is in goes on.
C21_FailureThrowsNothing == plog.op = "useProgram" => ~plog.thrown

\* C22: the painter set up when the context is restored has an empty
\* program cache, and from then on no program created before the
\* restoration is in the cache, returned by useProgram, drawn with or bound.
C22_NoProgramAcrossRestore ==
    /\ plog.op = "contextrestored" => cache = EmptyMap
    /\ \A k \in DOMAIN cache : cache[k].id > gpu.invalidated
    /\ plog.op \in {"useProgram", "draw"} => plog.handle > gpu.invalidated
    /\ gpu.program # NoProgram => gpu.program > gpu.invalidated

\* A key that had a program before the context was lost is asked for again
\* after the restoration and gets a new program.
C22_Witness ==
    /\ plog.op = "useProgram"
    /\ plog.created
    /\ gpu.invalidated > 0
    /\ \E i \in 1..gpu.invalidated :
          CompositeKey(programs[i]) = CompositeKey(programs[plog.handle])

----------------------------------------------------------------------------
(* Style: sources, layers and batched updates (style.js) *)

\* The layer ids of the styles.
LayerIds == {"layer1", "layer2"}

\* The source a style gives for a source id: source1 is a vector source,
\* source2 a raster source.
SourceSpec(id) == [type |-> IF id = "source1" THEN "vector" ELSE "raster"]

\* A layer of a style JSON: layer1 is a circle layer on source1, layer2 a
\* raster layer on source2.
SourceOf(id) == IF id = "layer1" THEN "source1" ELSE "source2"
LayerSpec(id, minzoom, metadata) ==
    [id |-> id, type |-> IF SourceSpec(SourceOf(id)).type = "vector" THEN "circle" ELSE "raster",
     source |-> SourceOf(id), minzoom |-> minzoom, metadata |-> metadata]

\* A call on the style: the style as the call has left it so far, the events
\* it has fired, the exception it has thrown and its broadcasts to the
\* workers.
Call(st) == [st |-> st, fired |-> <<>>, thrown |-> "none", sent |-> <<>>,
             returned |-> FALSE, applied |-> 0]
Throw(c, e) == [c EXCEPT !.thrown = e]
Fire(c, e) == [c EXCEPT !.fired = Append(@, e)]
ErrorEvent(message) == [type |-> "error", error |-> message]

\* delete obj[k] and obj[k] = v on an object.
Delete(obj, k) == [x \in DOMAIN obj \ {k} |-> obj[x]]
Put(obj, k, v) == [x \in DOMAIN obj \cup {k} |-> IF x = k THEN v ELSE obj[x]]

\* obj[k] = true on an object kept as the list Object.keys returns: a key
\* that is there stays where it is.
SetKeyAgain(keys, k) == Append(keys, k)
SetKey(keys, k) == IF k \in Range(keys) THEN keys ELSE Append(keys, k)

\* new SourceCache(id, source, dispatcher): not paused, without tiles.
NewSourceCache(source) == [type |-> source.type, paused |-> FALSE, tiles |-> FALSE]

\* _checkLoaded()
NotLoaded(c) == ~c.st._loaded

\* for (const layerId in this._layers)
\*     if (this._layers[layerId].source === id) return this.fire(...)
InUseNever(st, id) == FALSE
InUse(st, id) == \E l \in DOMAIN st._layers : st._layers[l].source = id

\* removeSource(id)
removeSource(c, id) ==
    IF NotLoaded(c) THEN Throw(c, "Style is not done loading")
    ELSE IF id \notin DOMAIN c.st.sourceCaches
    THEN Throw(c, "There is no source with this ID")
    ELSE IF InUse(c.st, id) THEN Fire(c, ErrorEvent("cannot be removed while layer is using it"))
    ELSE [c EXCEPT !.st.sourceCaches = Delete(@, id),
                   !.st._updatedSources = Delete(@, id),
                   !.st._changed = TRUE,
                   !.fired = Append(@, [type |-> "data", dataType |-> "source"])]

\* addSource(id, source, options)
addSource(c, id, source) ==
    IF NotLoaded(c) THEN Throw(c, "Style is not done loading")
    ELSE IF id \in DOMAIN c.st.sourceCaches
    THEN Throw(c, "There is already a source with this ID")
    ELSE [c EXCEPT !.st.sourceCaches = Put(@, id, NewSourceCache(source)),
                   !.st._changed = TRUE]

\* _updateLayer(layer)
NeedsReload(st, layer) ==
    /\ layer.source \notin DOMAIN st._updatedSources
    /\ st.sourceCaches[layer.source].type # "raster"

_updateLayer(c, layer) ==
    [c EXCEPT !.st._updatedLayers = SetKey(@, layer.id),
              !.st._updatedSources =
                  IF NeedsReload(c.st, layer) THEN Put(@, layer.source, "reload") ELSE @,
              !.st.sourceCaches =
                  IF NeedsReload(c.st, layer)
                  THEN [@ EXCEPT ![layer.source].paused = TRUE] ELSE @,
              !.st._changed = TRUE]

\* The layer was removed in this batch and is added again: the tiles of its
\* source are cleared when its type has changed and reloaded otherwise.
ReAdded(c, layer) ==
    IF layer.id \notin DOMAIN c.st._removedLayers THEN c
    ELSE [c EXCEPT !.st._removedLayers = Delete(@, layer.id),
                   !.st._updatedSources =
                       Put(@, layer.source,
                           IF c.st._removedLayers[layer.id].type # layer.type
                           THEN "clear" ELSE "reload"),
                   !.st.sourceCaches =
                       IF c.st._removedLayers[layer.id].type # layer.type THEN @
                       ELSE [@ EXCEPT ![layer.source].paused = TRUE]]

\* this._order.splice(index, 0, id); this._layerOrderChanged = true;
\* this._layers[id] = layer
SplicedOrderOnly(c, layer, index) ==
    [c EXCEPT !.st._order = InsertAt(@, index, layer.id),
              !.st._layerOrderChanged = TRUE]
Spliced(c, layer, index) ==
    [c EXCEPT !.st._order = InsertAt(@, index, layer.id),
              !.st._layerOrderChanged = TRUE,
              !.st._layers = Put(@, layer.id, layer)]

\* this._serializedLayers[layer.id] = layer.serialize()
Serialized(c, layer) == [c EXCEPT !.st._serializedLayers = Put(@, layer.id, layer)]

\* addLayer(layerObject, before, options). The layer validation rejects a
\* layer whose source the style does not have. The serialized layer is
\* written before the index of `before` is looked up.
addLayer(c, layerObject, before) ==
    IF NotLoaded(c) THEN Throw(c, "Style is not done loading")
    ELSE IF layerObject.id \in DOMAIN c.st._layers
    THEN Fire(c, ErrorEvent("Layer already exists on this map"))
    ELSE IF layerObject.source \notin DOMAIN c.st.sourceCaches
    THEN Fire(c, ErrorEvent("source not found"))
    ELSE IF before # Undefined /\ IndexOf(c.st._order, before) = -1
    THEN Fire(Serialized(c, layerObject), ErrorEvent("Layer does not exist on this map"))
    ELSE _updateLayer(
             ReAdded(Spliced(Serialized(c, layerObject), layerObject,
                             IF before # Undefined THEN IndexOf(c.st._order, before)
                             ELSE Len(c.st._order)),
                     layerObject),
             layerObject)

\* setLayerZoomRange(layerId, minzoom, maxzoom), for layers without maxzoom.
setLayerZoomRange(c, layerId, minzoom) ==
    IF NotLoaded(c) THEN Throw(c, "Style is not done loading")
    ELSE IF layerId \notin DOMAIN c.st._layers
    THEN Fire(c, ErrorEvent("The layer does not exist in the map's style"))
    ELSE IF c.st._layers[layerId].minzoom = minzoom THEN c
    ELSE _updateLayer([c EXCEPT !.st._layers[layerId].minzoom = minzoom],
                      [c.st._layers[layerId] EXCEPT !.minzoom = minzoom])

\* _serializeLayers(ids)
_serializeLayers(st, ids) == [i \in 1..Len(ids) |-> st._layers[ids[i]]]

\* Object.keys of the layers removed in this batch.
RemovedIds(st) == {id \in LayerIds : id \in DOMAIN st._removedLayers}

\* if (updatedIds.length || removedIds.length)
\*     this._updateWorkerLayers(updatedIds, removedIds)
WorkerStep(c) ==
    IF c.st._updatedLayers = <<>> /\ RemovedIds(c.st) = {} THEN c
    ELSE [c EXCEPT !.sent = Append(@,
            [type |-> "updateLayers",
             layers |-> _serializeLayers(c.st, c.st._updatedLayers),
             removedIds |-> RemovedIds(c.st)])]

\* _reloadSource(id) resumes and reloads the source cache, _clearSource(id)
\* clears its tiles.
SourceUpdatedStaysPaused(sc, action) ==
    IF action = "reload" THEN sc
    ELSE [sc EXCEPT !.tiles = FALSE]
SourceUpdated(sc, action) ==
    IF action = "reload" THEN [sc EXCEPT !.paused = FALSE]
    ELSE [sc EXCEPT !.tiles = FALSE]

SourcesStep(c) ==
    [c EXCEPT !.st.sourceCaches =
        [id \in DOMAIN @ |->
            IF id \in DOMAIN c.st._updatedSources
            THEN SourceUpdated(@[id], c.st._updatedSources[id]) ELSE @[id]]]

\* _resetUpdates()
_resetUpdatesKeepsLayers(st) ==
    [st EXCEPT !._changed = FALSE, !._removedLayers = EmptyMap,
               !._updatedSources = EmptyMap]
_resetUpdates(st) ==
    [st EXCEPT !._changed = FALSE, !._updatedLayers = <<>>,
               !._removedLayers = EmptyMap, !._updatedSources = EmptyMap]

ResetStep(c) == [c EXCEPT !.st = _resetUpdates(@)]

DataEvent(c, changed) ==
    IF changed THEN Fire(c, [type |-> "data", dataType |-> "style"]) ELSE c

\* update(parameters)
update(c) ==
    IF ~c.st._loaded THEN c
    ELSE IF ~c.st._changed THEN c
    ELSE DataEvent(ResetStep(SourcesStep(WorkerStep(c))), TRUE)

\* _updateSources(transform): a source cache that is not paused loads the
\* tiles the transform covers.
_updateSources(c) ==
    [c EXCEPT !.st.sourceCaches =
        [id \in DOMAIN @ |-> IF @[id].paused THEN @[id] ELSE [@[id] EXCEPT !.tiles = TRUE]]]

\* The style JSONs: a sprite, the sources and the layers, each layer on a
\* source of the style.
Sprites == {"sprite1", "sprite2"}
Zooms == {0, 1}
Metadata == {"m1", "m2"}

LayerOptions(id, sources) ==
    {<<>>} \cup {<<LayerSpec(id, z, md)>> : z \in IF SourceOf(id) \in sources THEN Zooms ELSE {},
                                            md \in Metadata}

StylesheetsOn(sources) ==
    {[defined |-> TRUE, sprite |-> sp, sources |-> sources, layers |-> a \o b] :
        sp \in Sprites, a \in LayerOptions("layer1", sources),
        b \in LayerOptions("layer2", sources)}

Stylesheets == UNION {StylesheetsOn(sources) : sources \in SUBSET Sources}

\* this.stylesheet = json, as far as the style reads it again: serialize
\* takes the sources and the layers from the source caches and _layers.
Stylesheet(json) == [defined |-> TRUE, sprite |-> json.sprite]

\* serialize(): the sprite of the stylesheet, the sources of the source
\* caches and the layers in _order.
serialize(st) ==
    [defined |-> TRUE, sprite |-> st.stylesheet.sprite,
     sources |-> DOMAIN st.sourceCaches,
     layers |-> _serializeLayers(st, st._order)]

\* An operation of a diff: the command and its arguments.
NoLayer == [id |-> Undefined]
Op(command, id, layer, before) ==
    [command |-> command, id |-> id, layer |-> layer, before |-> before]

\* The order in which the keys of the sources are visited.
SourceOrder == <<"source1", "source2">>

ElementAt(seq, k) == IF k \in 1..Len(seq) THEN seq[k] ELSE Undefined
Ids(layers) == {layers[i].id : i \in 1..Len(layers)}
Without(seq, x) == SelectSeq(seq, LAMBDA y : y # x)
LayerOf(layers, id) == layers[CHOOSE i \in 1..Len(layers) : layers[i].id = id]

\* diffLayers, its first loop: the layers of before that after does not have
\* are removed.
RECURSIVE RemoveCommands(_, _, _)
RemoveCommands(before, afterIds, i) ==
    IF i > Len(before) THEN <<>>
    ELSE (IF before[i].id \in afterIds THEN <<>>
          ELSE <<Op("removeLayer", before[i].id, NoLayer, Undefined)>>)
         \o RemoveCommands(before, afterIds, i + 1)

\* diffLayers, its second loop, from the last layer of after down: a layer
\* that is not where the tracker has it is removed when before has it and
\* added before the layer that follows it.
Moved(t, layer, i, inBefore) ==
    [tracker |-> InsertAt(Without(t.tracker, layer.id),
                          Len(Without(t.tracker, layer.id)) - i, layer.id),
     commands |-> t.commands
        \o (IF inBefore THEN <<Op("removeLayer", layer.id, NoLayer, Undefined)>> ELSE <<>>)
        \o <<Op("addLayer", layer.id, layer,
                ElementAt(Without(t.tracker, layer.id),
                          Len(Without(t.tracker, layer.id)) - i + 1))>>,
     clean |-> t.clean \cup {layer.id}]

RECURSIVE AddCommands(_, _, _, _)
AddCommands(t, beforeIds, after, i) ==
    IF i >= Len(after) THEN t
    ELSE AddCommands(
            IF ElementAt(t.tracker, Len(t.tracker) - i) = after[Len(after) - i].id THEN t
            ELSE Moved(t, after[Len(after) - i], i, after[Len(after) - i].id \in beforeIds),
            beforeIds, after, i + 1)

\* diffLayers, its third loop: a layer whose source or type has changed is
\* removed and added where it was, and every other change is a command of
\* its own.
LayerCommands(b, a, tracker) ==
    IF b.source # a.source \/ b.type # a.type
    THEN <<Op("removeLayer", a.id, NoLayer, Undefined),
           Op("addLayer", a.id, a, ElementAt(tracker, IndexOf(tracker, a.id) + 2))>>
    ELSE (IF b.minzoom # a.minzoom
          THEN <<Op("setLayerZoomRange", a.id, a, Undefined)>> ELSE <<>>)
         \o (IF b.metadata # a.metadata
             THEN <<Op("setLayerProperty", a.id, a, Undefined)>> ELSE <<>>)

RECURSIVE UpdateCommands(_, _, _, _)
UpdateCommands(t, before, after, i) ==
    IF i > Len(after) THEN <<>>
    ELSE (IF after[i].id \in t.clean \/ LayerOf(before, after[i].id) = after[i] THEN <<>>
          ELSE LayerCommands(LayerOf(before, after[i].id), after[i], t.tracker))
         \o UpdateCommands(t, before, after, i + 1)

Updated(t, before, after) == t.commands \o UpdateCommands(t, before, after, 1)

diffLayers(before, after) ==
    Updated(AddCommands([tracker |-> SelectSeq([i \in 1..Len(before) |-> before[i].id],
                                               LAMBDA id : id \in Ids(after)),
                         commands |-> RemoveCommands(before, Ids(after), 1),
                         clean |-> {}],
                        Ids(before), after, 0),
            before, after)

\* diffSources: the sources of before that after does not have are removed,
\* the sources it has and before has not are added.
RECURSIVE SourceCommands(_, _, _)
SourceCommands(before, after, i) ==
    IF i > Len(SourceOrder) THEN <<>>
    ELSE (IF SourceOrder[i] \in before.sources \ after.sources
          THEN <<Op("removeSource", SourceOrder[i], NoLayer, Undefined)>> ELSE <<>>)
         \o SourceCommands(before, after, i + 1)
         \o (IF SourceOrder[Len(SourceOrder) + 1 - i] \in after.sources \ before.sources
             THEN <<Op("addSource", SourceOrder[Len(SourceOrder) + 1 - i], NoLayer, Undefined)>>
             ELSE <<>>)

\* The layers of before on a source the diff removes are removed first; the
\* others are the layers diffLayers starts from.
RECURSIVE OrphanCommands(_, _, _)
OrphanCommands(before, after, i) ==
    IF i > Len(before.layers) THEN <<>>
    ELSE (IF before.layers[i].source \in after.sources THEN <<>>
          ELSE <<Op("removeLayer", before.layers[i].id, NoLayer, Undefined)>>)
         \o OrphanCommands(before, after, i + 1)

\* diffStyles(before, after): the sprite, the layers of removed sources, the
\* sources, the layers.
diffStyles(before, after) ==
    (IF before.sprite # after.sprite
     THEN <<Op("setSprite", Undefined, NoLayer, Undefined)>> ELSE <<>>)
    \o OrphanCommands(before, after, 1)
    \o SourceCommands(before, after, 1)
    \o diffLayers(SelectSeq(before.layers, LAMBDA l : l.source \in after.sources),
                  after.layers)

\* The commands setState applies, and the methods the Style has for them.
supportedDiffOperations ==
    {"addLayer", "removeLayer", "setPaintProperty", "setLayoutProperty", "setFilter",
     "addSource", "removeSource", "setLayerZoomRange", "setLight", "setTransition",
     "setGeoJSONSourceData"}

\* The number of commands setState has called a method for.
Applying(c) == [c EXCEPT !.applied = @ + 1]

\* (this: any)[op.command].apply(this, op.args): a command the Style has no
\* method for is a TypeError.
ApplyOp(c, op) ==
    IF c.thrown # "none" THEN c
    ELSE IF op.command = "addLayer" THEN addLayer(Applying(c), op.layer, op.before)
    ELSE IF op.command = "addSource"
    THEN addSource(Applying(c), op.id, SourceSpec(op.id))
    ELSE IF op.command = "removeSource" THEN removeSource(Applying(c), op.id)
    ELSE IF op.command = "setLayerZoomRange"
    THEN setLayerZoomRange(Applying(c), op.id, op.layer.minzoom)
    ELSE Throw(c, "TypeError")

RECURSIVE ApplyFrom(_, _, _)
ApplyFrom(c, changes, i) ==
    IF i > Len(changes) THEN c
    ELSE ApplyFrom(ApplyOp(c, changes[i]), changes, i + 1)

\* changes.filter(op => !(op.command in supportedDiffOperations))
UnimplementedNone(changes) == {}
Unimplemented(changes) ==
    {i \in 1..Len(changes) : changes[i].command \notin supportedDiffOperations}

Patched(c, nextState) ==
    IF c.thrown # "none" THEN c
    ELSE [c EXCEPT !.st.stylesheet = Stylesheet(nextState), !.returned = TRUE]

SetStateWith(c, nextState, changes) ==
    IF changes = <<>> THEN c
    ELSE IF Unimplemented(changes) # {} THEN Throw(c, "Unimplemented")
    ELSE Patched(ApplyFrom(c, changes, 1), nextState)

\* setState(nextState), for a nextState that is valid.
setState(c, nextState) ==
    IF NotLoaded(c) THEN Throw(c, "Style is not done loading")
    ELSE SetStateWith(c, nextState, diffStyles(serialize(c.st), nextState))

\* _load(json, validate), for a json that is valid, the style of the request
\* loadJSON has made.
Loaded(st, json) ==
    [st EXCEPT !._request = NoStylesheet, !._loaded = TRUE,
               !.stylesheet = Stylesheet(json),
               !.sourceCaches = [id \in json.sources |-> NewSourceCache(SourceSpec(id))],
               !._changed = (json.sources # {}),
               !._order = [i \in 1..Len(json.layers) |-> json.layers[i].id],
               !._layers = [id \in Ids(json.layers) |-> LayerOf(json.layers, id)],
               !._serializedLayers =
                   [id \in Ids(json.layers) |-> LayerOf(json.layers, id)]]

_load(c, json) ==
    [c EXCEPT !.st = Loaded(@, json),
              !.sent = Append(@, [type |-> "setLayers", layers |-> json.layers,
                                  removedIds |-> {}]),
              !.fired = @ \o <<[type |-> "data", dataType |-> "style"],
                               [type |-> "style.load", dataType |-> "style"]>>]

\* loadJSON(json, options) on a new Style.
loadJSON(json) == [NewStyle EXCEPT !._request = json]

\* The fields of the map a call on the style can reach through the map's
\* event handlers.
MapState ==
    [styleDirty |-> styleDirty, sourcesDirty |-> sourcesDirty,
     _frame |-> _frame, frames |-> frames]

\* this.style && !this._frame
NoFramePendingEver(m) == TRUE
NoFramePending(m) == m._frame = NoFrame

\* browser.frame(fn): the handle of the callback.
NewFrame(fs) == CHOOSE n \in 1..(Cardinality(fs) + 1) : n \notin fs

\* triggerRepaint()
triggerRepaint(m) ==
    IF NoFramePending(m)
    THEN [m EXCEPT !._frame = NewFrame(m.frames), !.frames = @ \cup {NewFrame(m.frames)}]
    ELSE m

\* _update(updateStyle)
_update(m, updateStyle) ==
    triggerRepaint([m EXCEPT !.styleDirty = @ \/ updateStyle, !.sourcesDirty = TRUE])

\* this.on('data', event => this._update(event.dataType === 'style')), for
\* the events a call has fired.
Heard(m, c) ==
    IF \E i \in 1..Len(c.fired) : c.fired[i].type = "data"
    THEN _update(m, \E i \in 1..Len(c.fired) :
                        c.fired[i].type = "data" /\ c.fired[i].dataType = "style")
    ELSE m

\* The map and its style after a call that went as c and left the map as m.
StyleDone(c, m, entry) ==
    /\ mapStyle' = c.st
    /\ slog' = entry
    /\ styleDirty' = m.styleDirty
    /\ sourcesDirty' = m.sourcesDirty
    /\ _frame' = m._frame
    /\ frames' = m.frames
    /\ UNCHANGED <<rlog, placementDirty, fadeDuration, now, zoom, sourceTiles,
                   placementVars, programVars, stencilVars, depthVars, frameVars,
                   renderVars>>

Outcome(op, arg, c) ==
    [op |-> op, arg |-> arg, fired |-> c.fired, thrown |-> c.thrown, sent |-> c.sent,
     effect |-> c.st # mapStyle]

StyleCall(op, arg, c) == StyleDone(c, Heard(MapState, c), Outcome(op, arg, c))

\* The frame callback loadJSON has asked for.
StyleLoad ==
    /\ mapStyle._request.defined
    /\ StyleCall("_load", Undefined, _load(Call(mapStyle), mapStyle._request))

CallRemoveSource ==
    \E id \in Sources :
        StyleCall("removeSource", id, removeSource(Call(mapStyle), id))

CallAddSource ==
    \E id \in Sources :
        StyleCall("addSource", id, addSource(Call(mapStyle), id, SourceSpec(id)))

CallAddLayer ==
    \E id \in LayerIds, z \in Zooms, before \in LayerIds \cup {Undefined} :
        StyleCall("addLayer", id,
                  addLayer(Call(mapStyle), LayerSpec(id, z, "m1"), before))

CallSetLayerZoomRange ==
    \E id \in LayerIds, z \in Zooms :
        StyleCall("setLayerZoomRange", id, setLayerZoomRange(Call(mapStyle), id, z))

\* style.update(parameters) and style._updateSources(transform), as the
\* frames call them.
CallUpdate == StyleCall("update", Undefined, update(Call(mapStyle)))
CallUpdateSources ==
    /\ mapStyle._loaded
    /\ StyleCall("_updateSources", Undefined, _updateSources(Call(mapStyle)))

\* Map._updateStyle(style, options): the style is removed and a new one asks
\* for the JSON.
_updateStyle(c, json) ==
    [Call(loadJSON(json)) EXCEPT !.thrown = c.thrown, !.fired = c.fired]

\* Map._updateDiff(style, options)
_updateDiff(c, json) ==
    IF c.thrown # "none" THEN _updateStyle(c, json) ELSE c

UpdateDiffDone(c, r, nextState) ==
    /\ StyleDone([r EXCEPT !.thrown = "none"],
                 IF r.returned THEN _update(Heard(MapState, r), TRUE)
                 ELSE Heard(MapState, r),
                 [op |-> "_updateDiff", arg |-> nextState,
                  changes |-> IF mapStyle._loaded
                              THEN diffStyles(serialize(mapStyle), nextState) ELSE <<>>,
                  fired |-> r.fired, thrown |-> c.thrown, applied |-> c.applied,
                  untouched |-> c.st = mapStyle, returned |-> c.returned,
                  sent |-> r.sent, rebuilt |-> c.thrown # "none"])

UpdateDiffWith(c, nextState) == UpdateDiffDone(c, _updateDiff(c, nextState), nextState)

UpdateDiff ==
    \E nextState \in Stylesheets :
        UpdateDiffWith(setState(Call(mapStyle), nextState), nextState)

\* A map constructed with a style: setStyle has made the Style and asked for
\* its JSON.
InitStyleLoading ==
    /\ InitPainter
    /\ InitNoRender
    /\ InitSchedule
    /\ mapStyle \in {loadJSON(json) : json \in {j \in Stylesheets : j.layers = <<>>}}
    /\ slog = NoCall

\* The style under the calls of the application and of the frames.
NextStyle ==
    \/ StyleLoad \/ CallRemoveSource \/ CallAddSource \/ CallAddLayer
    \/ CallSetLayerZoomRange \/ CallUpdate \/ CallUpdateSources

SpecStyle == InitStyleLoading /\ [][NextStyle]_vars

\* The style under setStyle with a diff.
NextDiff == StyleLoad \/ UpdateDiff \/ CallUpdate

SpecDiff == InitStyleLoading /\ [][NextDiff]_vars

----------------------------------------------------------------------------
(* Claims about the style *)

\* C23: removeSource(id) while a layer of the style is on source id is
\* rejected with an error and changes nothing: the source cache stays in
\* sourceCaches with its tiles, and the pending updates and the changed
\* flag are as they were before the call.
C23_RemoveSourceInUseRejected ==
    [][(/\ slog'.op = "removeSource"
        /\ mapStyle._loaded
        /\ \E l \in DOMAIN mapStyle._layers : mapStyle._layers[l].source = slog'.arg)
       => (/\ \E i \in 1..Len(slog'.fired) : slog'.fired[i].type = "error"
           /\ slog'.arg \in DOMAIN mapStyle'.sourceCaches
           /\ mapStyle'.sourceCaches = mapStyle.sourceCaches
           /\ mapStyle'._updatedLayers = mapStyle._updatedLayers
           /\ mapStyle'._removedLayers = mapStyle._removedLayers
           /\ mapStyle'._updatedSources = mapStyle._updatedSources
           /\ mapStyle'._changed = mapStyle._changed
           /\ mapStyle' = mapStyle)]_vars

\* C23's case: the source of a layer that waits for its update is asked to
\* be removed while its cache holds tiles, and the call ends with an error.
C23_Witness ==
    /\ slog.op = "removeSource"
    /\ \E i \in 1..Len(slog.fired) : slog.fired[i].type = "error"
    /\ \E l \in DOMAIN mapStyle._layers : mapStyle._layers[l].source = slog.arg
    /\ mapStyle.sourceCaches[slog.arg].tiles
    /\ slog.arg \in DOMAIN mapStyle._updatedSources
    /\ mapStyle._updatedLayers # <<>>

\* C24: a diff with a command outside the supported ones makes setState
\* throw before it has applied any command, and _updateDiff then builds the
\* style anew; after _updateDiff the style in use is either the new style
\* that waits for its JSON or a style that is the requested state, never one
\* that setState has left halfway.
C24_UnsupportedDiffRebuilds ==
    slog.op = "_updateDiff" =>
        /\ (\E i \in 1..Len(slog.changes) :
                slog.changes[i].command \notin supportedDiffOperations)
              => (/\ slog.thrown = "Unimplemented"
                  /\ slog.applied = 0
                  /\ slog.untouched
                  /\ slog.rebuilt)
        /\ slog.rebuilt => mapStyle = loadJSON(slog.arg)
        /\ ~slog.rebuilt => (mapStyle._loaded /\ serialize(mapStyle) = slog.arg)

\* C24's case: the diff adds a source and then has a command setState does
\* not support.
C24_Witness ==
    /\ slog.op = "_updateDiff"
    /\ slog.rebuilt
    /\ \E i, j \in 1..Len(slog.changes) :
          /\ i < j
          /\ slog.changes[i].command = "addSource"
          /\ slog.changes[j].command \notin supportedDiffOperations

\* The marks a layer has in the list of the layers to update.
Marks(st, id) == Cardinality({i \in 1..Len(st._updatedLayers) : st._updatedLayers[i] = id})

\* C25: a layer has at most one mark however often it was changed since the
\* last update, and one after a call that has changed it; addLayer and
\* setLayerZoomRange send nothing to the workers and leave the tiles of the
\* sources alone; update sends one batch with each marked layer once and
\* leaves the pending updates empty and the changed flag false.
C25_OneMarkOneBatch ==
    [][/\ \A id \in LayerIds : Marks(mapStyle', id) <= 1
       /\ slog'.op \in {"addLayer", "setLayerZoomRange"} =>
             /\ slog'.sent = <<>>
             /\ \A src \in DOMAIN mapStyle.sourceCaches :
                   /\ src \in DOMAIN mapStyle'.sourceCaches
                   /\ mapStyle'.sourceCaches[src].tiles = mapStyle.sourceCaches[src].tiles
             /\ \A id \in DOMAIN mapStyle'._layers :
                   (id \notin DOMAIN mapStyle._layers
                    \/ mapStyle'._layers[id] # mapStyle._layers[id])
                      => (Marks(mapStyle', id) = 1 /\ mapStyle'._changed)
       /\ (slog'.op = "update" /\ mapStyle._loaded) =>
             /\ Len(slog'.sent) = IF mapStyle._updatedLayers = <<>> THEN 0 ELSE 1
             /\ mapStyle._updatedLayers # <<>> =>
                   /\ slog'.sent[1].type = "updateLayers"
                   /\ Len(slog'.sent[1].layers) =
                         Cardinality(Range(mapStyle._updatedLayers))
                   /\ Ids(slog'.sent[1].layers) = Range(mapStyle._updatedLayers)
                   /\ \A i \in 1..Len(slog'.sent[1].layers) :
                         slog'.sent[1].layers[i] =
                             mapStyle._layers[slog'.sent[1].layers[i].id]
             /\ mapStyle'._updatedLayers = <<>>
             /\ mapStyle'._removedLayers = EmptyMap
             /\ mapStyle'._updatedSources = EmptyMap
             /\ ~mapStyle'._changed]_vars

\* C25's case: a layer that was marked before another one is changed again
\* before the update.
C25_Witness ==
    /\ slog.op = "setLayerZoomRange"
    /\ slog.effect
    /\ Len(mapStyle._updatedLayers) = 2
    /\ mapStyle._updatedLayers[1] = slog.arg

----------------------------------------------------------------------------
(* Claims about the state of a frame *)

\* The offscreen pass has drawn a layer and the frame has not cleared yet:
\* the painter's fields are what the offscreen draws were given.
OffscreenDrawn ==
    /\ pc = "clear"
    /\ \E i \in 1..Len(glog) : LayerEvent(glog[i], "offscreen") /\ glog[i].result = "drawn"

LastOffscreenLayer ==
    glog[CHOOSE i \in 1..Len(glog) :
            /\ LayerEvent(glog[i], "offscreen")
            /\ \A j \in (i + 1)..Len(glog) : ~LayerEvent(glog[j], "offscreen")].layer

\* C26: a draw of the offscreen pass is given the state of its own frame:
\* the layer drawn is the current layer, the next stencil value is the first
\* one, no clipping source is current and no tile has a stencil value.
C26_OffscreenSeesOwnFrame ==
    OffscreenDrawn =>
        /\ currentLayer = LastOffscreenLayer
        /\ nextStencilID = 1
        /\ currentStencilSource = Undefined
        /\ tileClippingMaskIDs = EmptyMap

\* What the offscreen draws of a second frame are given instead: the
\* current layer, the stencil value and the clipping source the frame before
\* has ended with.
C26_CarriedOver ==
    /\ OffscreenDrawn
    /\ currentLayer # NaN /\ currentLayer # LastOffscreenLayer
    /\ nextStencilID > 1
    /\ currentStencilSource # Undefined
    /\ tileClippingMaskIDs # EmptyMap

----------------------------------------------------------------------------
(* The depth bands over frames *)

\* The layers of the styles the bands are computed for: 2-D layers and 3-D
\* layers.
BandLayers == {Layer(t, "source1", FALSE) : t \in {"circle", "fill-extrusion"}}

\* The count of the frame before and of this frame, for the log.
Counted(log, n) ==
    IF log = <<>> THEN <<Event("opaque", "depthRangeFor3D", n, 0, "ok")>>
    ELSE <<log[Len(log)], Event("opaque", "depthRangeFor3D", n, 0, "ok")>>

\* render up to the opaque pass: the cutoff and the range for 3-D layers
\* are computed from the style the call is given; no draw routine has asked
\* for a depth mode in this frame yet.
BandFrame ==
    /\ pc \in {"idle", "done"}
    /\ opaquePassCutoff' = OpaquePassCutoff(style)
    /\ depthRangeFor3D' = DepthRangeFar(style)
    /\ renderPass' = "opaque"
    /\ glog' = Counted(glog, Len(style))
    /\ depthA' = NoDepthCall
    /\ pc' = "translucent"
    /\ UNCHANGED <<mapVars, placementVars, programVars, styleVars, scheduleVars,
                   stencilVars, depthB, currentLayer, style, coords, options,
                   passes>>

\* The draw routine of a layer of the style asks for the depth mode of one
\* of its sublayers, in the opaque or in the translucent loop.
BandDraw ==
    /\ pc = "translucent"
    /\ \E i \in 0..(Len(style) - 1), n \in {0, numSublayers - 1} :
        /\ currentLayer' = i
        /\ depthA' = depthModeForSublayer(i, opaquePassCutoff, n)
        /\ depthB' = depthA
    /\ UNCHANGED <<mapVars, placementVars, programVars, styleVars, scheduleVars,
                   stencilVars, depthRangeFor3D, renderPass, opaquePassCutoff, renderVars>>

\* render returns.
BandFrameEnd ==
    /\ pc = "translucent"
    /\ pc' = "done"
    /\ UNCHANGED <<mapVars, placementVars, programVars, styleVars, scheduleVars,
                   stencilVars, depthVars, frameVars, style, coords, options, passes,
                   glog>>

\* Between two frames a layer is added to the style.
BandAddLayer ==
    /\ pc \in {"idle", "done"}
    /\ Len(style) < MaxDepthLayers
    /\ \E layer \in BandLayers, index \in 0..Len(style) :
          style' = InsertAt(style, index, layer)
    /\ UNCHANGED <<mapVars, placementVars, programVars, styleVars, scheduleVars,
                   stencilVars, depthVars, frameVars, pc, coords, options, passes, glog>>

NextBand == BandFrame \/ BandDraw \/ BandFrameEnd \/ BandAddLayer

SpecBand == InitAlloc /\ [][NextBand]_vars

\* C27: a depth value of a sublayer of a layer of the style, computed with
\* the depth test enabled, is strictly greater than the far end of the range
\* for 3-D layers of its frame.
C27_BandsDisjoint ==
    (depthA.enabled /\ depthRangeFor3D # NaN) => depthA.depth > depthRangeFor3D

\* C27's tightest case: the last sublayer of the top layer, in the first
\* frame after layers were added.
C27_Witness ==
    /\ pc = "translucent"
    /\ Len(glog) = 2 /\ glog[1].layer < glog[2].layer
    /\ glog[2].layer = Len(style)
    /\ depthA.enabled
    /\ depthA.layer = Len(style) - 1
    /\ depthA.n = numSublayers - 1
    /\ depthA.depth = depthRangeFor3D + numSublayers + 1

\* The indices (from 0) of the 3-D layers of an order.
ThreeDIndices(order) == {i \in 0..(Len(order) - 1) : is3D(order[i + 1])}

Lowest(S) == CHOOSE i \in S : \A j \in S : i <= j
Highest(S) == CHOOSE i \in S : \A j \in S : i >= j

\* A draw routine has asked for a depth mode in the frame in progress.
DepthAsked == pc = "translucent" /\ depthA.layer # NaN

\* C28: the cutoff is the lowest index of a 3-D layer of the order (Infinity
\* when there is none), and a layer gets an enabled depth mode exactly when
\* its index is below the cutoff: the layers under the bottom-most 3-D
\* layer. The cutoff layer and every layer above it get the disabled mode.
C28_DepthEnabledBelowCutoff ==
    pc = "translucent" =>
        /\ opaquePassCutoff =
              IF ThreeDIndices(style) = {} THEN Infinity
              ELSE Lowest(ThreeDIndices(style))
        /\ DepthAsked =>
              (depthA.enabled <=> \A i \in ThreeDIndices(style) : depthA.layer < i)

\* C28's case: a layer under the cutoff layer with the depth test enabled,
\* in a style with a second 3-D layer above the cutoff layer.
C28_Witness ==
    /\ DepthAsked
    /\ Cardinality(ThreeDIndices(style)) = 2
    /\ opaquePassCutoff = Lowest(ThreeDIndices(style))
    /\ depthA.layer < opaquePassCutoff
    /\ depthA.enabled

\* C28 as it is stated: the cutoff is the first 3-D layer met from the top
\* of the order (the highest index), and the depth test is enabled exactly
\* for the layers above the cutoff layer.
C28_DepthEnabledAboveCutoff ==
    (pc = "translucent" /\ ThreeDIndices(style) # {}) =>
        /\ opaquePassCutoff = Highest(ThreeDIndices(style))
        /\ DepthAsked => (depthA.enabled <=> depthA.layer > opaquePassCutoff)

----------------------------------------------------------------------------
(* The stencil assignment table across clears *)

\* The last call cleared the stencil and assigned no mask afterwards: the
\* clear of render, or an overlap request that overflowed.
ClearedWithoutAssigning ==
    \/ ev.op = "clear"
    \/ ev.op = "overlap" /\ ev.clears > 0

\* The last call changed the clipping source.
SourceChanged == ev.op # "none" /\ currentStencilSource # ev.preSource

\* C29: every entry of _tileClippingMaskIDs is a value written to the
\* stencil buffer since the last full clear; after a clear, in render, in
\* the clip-mask path or in the overlap path, and after a change of the
\* clipping source the table holds only entries assigned since.
C29_TableValidAfterClear ==
    /\ Range(tileClippingMaskIDs) \subseteq DOMAIN live
    /\ ClearedWithoutAssigning => tileClippingMaskIDs = EmptyMap
    /\ (ev.op = "masks" /\ ev.clears > 0) => tileClippingMaskIDs = ev.refs
    /\ SourceChanged => tileClippingMaskIDs \in {EmptyMap, ev.refs}

\* The table of the frame before after render's clear: an entry for a value
\* that is in the stencil buffer no more.
C29_StaleAfterFrameClear ==
    /\ ev.op = "clear"
    /\ live = EmptyMap
    /\ tileClippingMaskIDs # EmptyMap

\* The table after an overlap request that overflowed: the entries of the
\* clip-mask call before the clear, next to the values of the request.
C29_StaleAfterOverlapClear ==
    /\ ev.op = "overlap" /\ ev.clears = 1
    /\ tileClippingMaskIDs # EmptyMap

\* While the table holds an entry that no clip-mask call has written since
\* the last clear, no clipping source is current: the next clip-mask call
\* for a tile-clipped layer with tiles rebuilds the table.
C29_StaleOnlyWithoutSource ==
    ~(Range(tileClippingMaskIDs) \subseteq DOMAIN live)
        => currentStencilSource = Undefined

----------------------------------------------------------------------------
(* Frames asked for and frames run (map.js) *)

\* The callbacks browser.frame was asked for by the call that took the map
\* from m to n.
Asked(m, n) == Cardinality(n.frames \ m.frames)

\* The map after a call from outside a frame that left it as m: rlog counts
\* the triggerRepaint calls and the browser.frame calls since the last frame
\* started.
Called(op, m) ==
    /\ styleDirty' = m.styleDirty
    /\ sourcesDirty' = m.sourcesDirty
    /\ _frame' = m._frame
    /\ frames' = m.frames
    /\ rlog' = [NoSchedule EXCEPT !.op = op,
                                  !.calls = rlog.calls + 1,
                                  !.asked = rlog.asked + Asked(MapState, m)]
    /\ UNCHANGED <<placementDirty, fadeDuration, now, zoom, sourceTiles,
                   placementVars, programVars, styleVars, stencilVars, depthVars,
                   frameVars, renderVars>>

\* map.triggerRepaint(), called by the application.
TriggerRepaint ==
    /\ rlog.calls < MaxRepaints
    /\ Called("triggerRepaint", triggerRepaint(MapState))

\* map._update(updateStyle), called by a handler of the map (a camera
\* event, a data event, _onWindowOnline, _contextRestored).
MapUpdate ==
    /\ rlog.calls < MaxRepaints
    /\ \E updateStyle \in BOOLEAN : Called("_update", _update(MapState, updateStyle))

\* _contextLost: if (this._frame) { this._frame.cancel(); this._frame = null; }
\* The callback will not run.
CancelFrame ==
    /\ _frame # NoFrame
    /\ _frame' = NoFrame
    /\ frames' = frames \ {_frame}
    /\ rlog' = [NoSchedule EXCEPT !.op = "cancel"]
    /\ UNCHANGED <<mapVars, placementVars, programVars, styleVars, stencilVars,
                   depthVars, frameVars, renderVars>>

\* The frame asks for another one at its end: the last entry of its log.
TailAsks(f) == f.log # <<>> /\ f.log[Len(f.log)].op = "triggerRepaint"

\* A listener of the 'render' event that calls map.triggerRepaint(); the
\* event is fired by a frame that did not throw.
ListenerAsks(m, f, listener) ==
    IF listener /\ ~f.thrown THEN triggerRepaint(m) ELSE m

\* if (somethingDirty || this._repaint) this.triggerRepaint()
TailRepaint(m, f) == IF TailAsks(f) THEN triggerRepaint(m) ELSE m

\* The callback of triggerRepaint for the frame h: this._frame = null, then
\* this._render(paintStartTimeStamp), with what it left of the schedule.
CallbackDone(h, f, listener, m) ==
    /\ FrameDone(f, RenderCall)
    /\ _frame' = m._frame
    /\ frames' = m.frames
    /\ rlog' = [op |-> "frame",
                calls |-> (IF listener /\ ~f.thrown THEN 1 ELSE 0)
                          + (IF TailAsks(f) THEN 1 ELSE 0),
                asked |-> Asked([frames |-> frames \ {h}], m),
                renders |-> 1,
                coalesced |-> rlog.calls,
                pending |-> Cardinality(frames)]

Callback(h, f, listener) ==
    CallbackDone(h, f, listener,
                 TailRepaint(ListenerAsks([_frame |-> NoFrame, frames |-> frames \ {h}],
                                          f, listener), f))

\* The browser runs a callback it was asked for and that was not cancelled.
FrameCallback ==
    \E h \in frames, budget \in Budgets, transitions \in Transitions,
       listener \in BOOLEAN :
        Callback(h, _render(FrameState, budget, transitions), listener)

NextRepaint == TriggerRepaint \/ MapUpdate \/ CancelFrame \/ FrameCallback

SpecRepaint == InitFrame /\ [][NextRepaint]_vars

\* C30: at most one frame callback is pending at any time, the one _frame
\* holds; the triggerRepaint calls made since the last frame have asked for
\* one callback together, however many they are; and a callback that runs
\* was the only one pending and calls _render once for all the calls made
\* before it.
C30_OneFramePending ==
    /\ Cardinality(frames) <= 1
    /\ frames = (IF _frame = NoFrame THEN {} ELSE {_frame})
    /\ rlog.calls >= 1 => (rlog.asked = 1 /\ Cardinality(frames) = 1)
    /\ rlog.op = "frame" =>
          /\ rlog.pending = 1
          /\ rlog.coalesced >= 1
          /\ rlog.renders = 1

\* C30's case: a frame that ran for several triggerRepaint calls.
C30_Witness ==
    /\ rlog.op = "frame"
    /\ rlog.coalesced >= 2
    /\ rlog.renders = 1
    /\ rlog.pending = 1

----------------------------------------------------------------------------
(* The place of an added layer *)

\* The place (from 1) of the layer id in an order that holds it.
PlaceOf(order, id) == CHOOSE k \in 1..Len(order) : order[k].id = id

\* The order without its k-th layer.
Dropped(order, k) == SubSeq(order, 1, k - 1) \o SubSeq(order, k + 1, Len(order))

\* The added layer stands immediately before the layer `before`, or at the
\* end when `before` was omitted, and the other layers are in the order
\* they had.
InsertedBefore(old, new, id, before) ==
    /\ \E k \in 1..Len(new) : new[k].id = id
    /\ Dropped(new, PlaceOf(new, id)) = old
    /\ IF before = Undefined THEN PlaceOf(new, id) = Len(new)
       ELSE /\ PlaceOf(new, id) < Len(new)
            /\ new[PlaceOf(new, id) + 1].id = before

\* C31: a successful addLayer(layer, before) puts the new id immediately
\* before `before`, or at the end when `before` is omitted, leaves the order
\* of the other layers as it was and sets _layerOrderChanged; and the
\* placement step of a frame that finds _layerOrderChanged set creates a
\* new pass, forced to be a full placement, and clears the mark.
C31_AddLayerBeforeAndNewPass ==
    [][/\ AddLayer =>
            /\ InsertedBefore(style, style', slog'.arg, slog'.before)
            /\ layerOrderChanged'
       /\ (RenderFrame /\ layerOrderChanged) =>
            /\ PlacementEntry'.created
            /\ PlacementEntry'.forced
            /\ PlacementEntry'.order = style
            /\ ~layerOrderChanged']_vars

\* C31's case: a layer added before the middle layer of three, and the
\* frame after it, whose placement step has started a new full pass over
\* the four layers.
C31_Witness ==
    /\ slog.op = "addLayer" /\ slog.before = "symbol2"
    /\ Len(style) = 4
    /\ style[2].id = "circles" /\ style[3].id = "symbol2"
    /\ FrameRan
    /\ PlacementEntry.created /\ PlacementEntry.forced
    /\ PlacementEntry.order = style
    /\ fadeDuration # 0
    /\ ~layerOrderChanged

----------------------------------------------------------------------------
(* Reference values for overlapping zoom levels *)

\* C32: an overlap request over the zoom levels minZ..maxZ, maxZ > minZ,
\* gives each level one value of the shared counter, a higher level a
\* higher value, starting at nextStencilID or at 1 after the clear that the
\* overflow rule nextStencilID + levels > 256 asks for, and advances the
\* counter by the number of levels; a request whose tiles share one level
\* returns the disabled stencil test and leaves the counter and the
\* clipping source as they were.
C32_OneValuePerZoomLevel ==
    ev.op = "overlap" =>
        /\ ev.skipped <=> ev.n = 1
        /\ ev.skipped =>
              /\ ev.refs = EmptyMap
              /\ ev.clears = 0
              /\ nextStencilID = ev.preID
              /\ currentStencilSource = ev.preSource
        /\ ~ev.skipped =>
              /\ Cardinality(DOMAIN ev.refs) = ev.n
              /\ \A y, z \in DOMAIN ev.refs : y < z => ev.refs[y] < ev.refs[z]
              /\ Cardinality(Range(ev.refs)) = ev.n
              /\ ev.clears = (IF ev.preID + ev.n > StencilSpace THEN 1 ELSE 0)
              /\ \A z \in DOMAIN ev.refs :
                    \/ z - 1 \in DOMAIN ev.refs
                    \/ ev.refs[z] = (IF ev.clears = 1 THEN 1 ELSE ev.preID)
              /\ \A z \in DOMAIN ev.refs :
                    z - 1 \in DOMAIN ev.refs => ev.refs[z] = ev.refs[z - 1] + 1
              /\ nextStencilID = (IF ev.clears = 1 THEN 1 ELSE ev.preID) + ev.n

\* C32's case: a request over two zoom levels that has to clear first,
\* after a clip-mask call has used up the counter.
C32_Witness ==
    /\ ev.op = "overlap" /\ ~ev.skipped
    /\ ev.n = 2
    /\ ev.clears = 1
    /\ ev.preSource # Undefined
    /\ nextStencilID = 3

----------------------------------------------------------------------------
(* The clipping source after a clip-mask call *)

\* C33: after a clip-mask call that drew masks for a layer the clipping
\* source is the layer's source, also when the call had to clear first.
C33_SourceSetAfterMasks ==
    (ev.op = "masks" /\ ~ev.skipped) => currentStencilSource = ev.source

\* What the code keeps: the source is set after a call that drew masks
\* without clearing, and undefined after one that cleared.
C33_SourceSetUnlessCleared ==
    (ev.op = "masks" /\ ~ev.skipped) =>
        currentStencilSource = (IF ev.clears = 0 THEN ev.source ELSE Undefined)

\* A clip-mask call that cleared and drew its masks has left no clipping
\* source behind.
C33_SourceLostByClear ==
    /\ ev.op = "masks" /\ ~ev.skipped
    /\ ev.clears = 1 /\ ev.masks = ev.n
    /\ currentStencilSource = Undefined

----------------------------------------------------------------------------
(* The range of the reference values *)

\* The values of the 8-bit stencil buffer other than the cleared value 0.
StencilValues == 1..(StencilSpace - 1)

\* The last call asked for no more values than the buffer has.
SmallRequest(e) == e.n <= StencilSpace - 1

\* C34: a call that asks for at most 255 values hands out values within
\* [1, 255] only, and takes nextStencilID from [1, 256], or from the
\* painter's first clear, to a value within [1, 256]: as long as every
\* request is that small, every value fits the stencil buffer, differs from
\* the cleared value 0, and the counter stays within [1, 256].
C34_ValuesFitStencil ==
    [][SmallRequest(ev') =>
          /\ Range(ev'.refs) \subseteq StencilValues
          /\ (nextStencilID \in 1..StencilSpace \/ ev'.op = "clear") =>
                /\ nextStencilID' \in 1..StencilSpace
                /\ DOMAIN live' \subseteq StencilValues]_vars

\* C34's tightest case: a clip-mask call for 255 tiles right after a clear
\* hands out 255 and leaves the counter at 256, and the next request hands
\* out 1 again.
C34_Witness ==
    /\ ev.op = "overlap" /\ ~ev.skipped
    /\ ev.preID = StencilSpace
    /\ ev.clears = 1
    /\ Range(ev.refs) = {1, 2}
    /\ StencilSpace - 1 \in Range(tileClippingMaskIDs)

----------------------------------------------------------------------------
(* style.placement at painter.render *)

C35_UnfinishedPassWitness ==
    /\ FrameRan
    /\ ~PlacementEntry.done /\ ~PlacementEntry.committed
    /\ PlacementEntry.work # <<>>
    /\ RenderEntry.placement.defined
    /\ RenderEntry.placement = placement

----------------------------------------------------------------------------
(* Dirty marks set while a frame runs *)

\* The steps of a frame during which a handler may call _update.
FramePoints == {"none", "style.update", "_updateSources", "painter.render"}

\* _update(updateStyle) called while the frame runs: the marks as the call
\* leaves them.
Dirtied(f, updateStyle) ==
    [f EXCEPT !.styleDirty = @ \/ updateStyle, !.sourcesDirty = TRUE]

\* The step during which the call is made runs in this frame: style.update
\* and _updateSources run when their mark is set.
PointReached(f, during) ==
    \/ during = "style.update" /\ f.styleDirty
    \/ during = "_updateSources" /\ f.sourcesDirty
    \/ during = "painter.render"

During(f, point, during, updateStyle) ==
    IF during = point THEN Dirtied(f, updateStyle) ELSE f

StyleUpdateWith(f, during, updateStyle) ==
    IF f.styleDirty THEN During(StyleUpdateStep(f), "style.update", during, updateStyle)
    ELSE f

SourcesUpdateWith(f, during, updateStyle) ==
    IF f.sourcesDirty
    THEN During(SourcesUpdateStep(f), "_updateSources", during, updateStyle)
    ELSE f

\* Map._render with an _update call made during one of its steps.
_renderWith(f, budget, transitions, during, updateStyle) ==
    FrameTail(
        During(PlacementThenRender(
                   SourcesUpdateWith(StyleUpdateWith(f, during, updateStyle),
                                     during, updateStyle),
                   budget),
               "painter.render", during, updateStyle),
        transitions)

\* The _update call inside the frame finds this._frame null and asks for a
\* frame.
UpdateAsks(m, f, during) == IF PointReached(f, during) THEN triggerRepaint(m) ELSE m

FrameWithUpdateDone(h, f, during, updateStyle, m) ==
    /\ FrameDone(f, RenderCall)
    /\ _frame' = m._frame
    /\ frames' = m.frames
    /\ rlog' = [op |-> "frame",
                calls |-> 0,
                asked |-> Asked([frames |-> frames \ {h}], m),
                renders |-> 1,
                coalesced |-> rlog.calls,
                pending |-> Cardinality(frames),
                during |-> IF PointReached(FrameState, during) THEN during ELSE "none",
                updateStyle |-> updateStyle,
                styleWasDirty |-> styleDirty,
                sourcesWereDirty |-> sourcesDirty]

\* The frame callback: this._frame = null, then _render, during which a
\* handler may call _update.
FrameWithUpdate ==
    \E h \in frames, budget \in Budgets, transitions \in Transitions,
       during \in FramePoints, updateStyle \in BOOLEAN :
        FrameWithUpdateDone(
            h, _renderWith(FrameState, budget, transitions, during, updateStyle),
            during, updateStyle,
            TailRepaint(UpdateAsks([_frame |-> NoFrame, frames |-> frames \ {h}],
                                   FrameState, during),
                        _renderWith(FrameState, budget, transitions, during,
                                    updateStyle)))

\* A tile the source cache asked for has loaded: the 'data' event handler
\* calls this._update(false).
TileLoaded ==
    /\ pauseablePlacement.exists
    /\ \E t \in TileIDs \ DOMAIN sourceTiles :
        /\ overscaledZ[t] = zoom
        /\ sourceTiles' = [u \in DOMAIN sourceTiles \cup {t} |->
                              IF u = t THEN LoadedTile ELSE sourceTiles[u]]
        /\ coords' = [src \in DOMAIN coords |-> CoordsOf(sourceTiles')]
    /\ styleDirty' = _update(MapState, FALSE).styleDirty
    /\ sourcesDirty' = _update(MapState, FALSE).sourcesDirty
    /\ _frame' = _update(MapState, FALSE)._frame
    /\ frames' = _update(MapState, FALSE).frames
    /\ rlog' = [NoSchedule EXCEPT !.op = "data"]
    /\ UNCHANGED <<placementDirty, fadeDuration, now, zoom, placementVars,
                   programVars, styleVars, stencilVars, depthVars, frameVars,
                   pc, style, options, passes, glog>>

NextDirty == MapUpdate \/ TileLoaded \/ FrameWithUpdate

SpecDirty == InitFrame /\ [][NextDirty]_vars

\* The frame that has just ended threw in painter.render.
FrameThrew == rlog.op = "frame" /\ RenderEntry.result = "TypeError"

\* Something is dirty at the end of the frame.
SomethingDirty == sourcesDirty \/ styleDirty \/ placementDirty

\* C36: when a frame has ended with the sources dirty, the style dirty or
\* the placement pass unfinished, a frame is pending; a mark set by an
\* _update call made while the frame ran is still set or was worked off by
\* a step of the same frame that ran after the call; and a frame that
\* starts with a mark set performs the update of that mark.
C36_DirtyFrameAsksForAnother ==
    rlog.op = "frame" =>
        /\ SomethingDirty => _frame # NoFrame
        /\ (pauseablePlacement.exists /\ ~pauseablePlacement.done) => _frame # NoFrame
        /\ rlog.during # "none" =>
              /\ _frame # NoFrame
              /\ sourcesDirty \/ rlog.during = "style.update"
              /\ rlog.updateStyle => styleDirty
        /\ rlog.styleWasDirty => At("style.update") # {}
        /\ rlog.sourcesWereDirty => At("_updateSources") # {}

\* A frame whose placement step stopped at its deadline and whose render
\* call threw: the pass is unfinished and no frame is pending.
C36_UnfinishedAndNoFrame ==
    /\ FrameThrew
    /\ rlog.during = "none"
    /\ pauseablePlacement.exists /\ ~pauseablePlacement.done
    /\ placementDirty
    /\ _frame = NoFrame

\* What the code keeps: the same for every frame whose render call has
\* returned, and for every frame during which _update was called.
C36_UnlessRenderThrew ==
    (rlog.op = "frame" /\ ~FrameThrew) => C36_DirtyFrameAsksForAnother

\* A mark set during the style update of a frame that returned: the frame
\* has asked for the next one once.
C36_MarkKept ==
    /\ rlog.op = "frame" /\ ~FrameThrew
    /\ rlog.during = "style.update" /\ rlog.updateStyle
    /\ styleDirty /\ ~sourcesDirty
    /\ rlog.asked = 1

----------------------------------------------------------------------------
(* The layers of a loaded style under mutations (style.js) *)

\* A map constructed with any of the styles, with layers or without.
InitLayersLoading ==
    /\ InitPainter
    /\ InitNoRender
    /\ InitSchedule
    /\ mapStyle \in {loadJSON(json) : json \in Stylesheets}
    /\ slog = NoCall

\* The style under its load, the calls of the application and of the frames.
SpecLayers == InitLayersLoading /\ [][NextStyle]_vars

\* No id is twice in the list.
NoIdTwice(order) ==
    \A i, j \in 1..Len(order) : order[i] = order[j] => i = j

AddLayerRejected(message) ==
    /\ CallAddLayer
    /\ slog'.op = "addLayer"
    /\ slog'.fired = <<ErrorEvent(message)>>

\* The fields of the style other than the serialized-layer table.
ButSerialized(st) == [st EXCEPT !._serializedLayers = EmptyMap]

\* C38: an addLayer call that is rejected (the id already exists, or `before`
\* names no existing layer) has no effect on the style: the layer order, the
\* layer table, the serialized-layer table, the set of sources, the
\* pending-update sets and the layer-order-changed flag are all unchanged.
C38_RejectedAddLayerNoEffect ==
    [][(\/ AddLayerRejected("Layer already exists on this map")
        \/ AddLayerRejected("Layer does not exist on this map"))
       => mapStyle' = mapStyle]_vars

\* The part of C38 the code has: a call rejected for its id changes nothing,
\* and a call rejected for its `before` changes nothing but the serialized
\* layer of the id it was to add.
C38_RejectedButSerialized ==
    [][/\ AddLayerRejected("Layer already exists on this map")
          => mapStyle' = mapStyle
       /\ AddLayerRejected("Layer does not exist on this map")
          => /\ ButSerialized(mapStyle') = ButSerialized(mapStyle)
             /\ slog'.arg \in DOMAIN mapStyle'._serializedLayers
             /\ \A id \in DOMAIN mapStyle._serializedLayers \ {slog'.arg} :
                   mapStyle'._serializedLayers[id] = mapStyle._serializedLayers[id]]_vars

\* A rejected addLayer call has left the serialized layer of a layer the style
\* does not have.
C38_SerializedWithoutLayer ==
    /\ slog.op = "addLayer"
    /\ slog.fired = <<ErrorEvent("Layer does not exist on this map")>>
    /\ slog.arg \notin DOMAIN mapStyle._layers
    /\ slog.arg \in DOMAIN mapStyle._serializedLayers
    /\ slog.effect

\* A call rejected for its id has left the style as it was.
C38_RejectedForItsId ==
    /\ slog.op = "addLayer"
    /\ slog.fired = <<ErrorEvent("Layer already exists on this map")>>
    /\ ~slog.effect
    /\ DOMAIN mapStyle._serializedLayers = DOMAIN mapStyle._layers

\* The source caches of the style that are paused.
Paused(st) == {id \in DOMAIN st.sourceCaches : st.sourceCaches[id].paused}

\* The source has a pending 'reload', and the next update() will find the
\* style changed.
ReloadPending(st, id) ==
    /\ id \in DOMAIN st._updatedSources
    /\ st._updatedSources[id] = "reload"
    /\ st._loaded /\ st._changed

\* C39: every source cache paused by a layer mutation has a pending 'reload'
\* action recorded for it, and is resumed and reloaded by the next update();
\* after an update() that found the style changed, no source that is still in
\* the style remains paused.
C39_PausedUntilNextUpdate ==
    /\ [](\A id \in Paused(mapStyle) : ReloadPending(mapStyle, id))
    /\ [][CallUpdate /\ mapStyle._loaded /\ mapStyle._changed
          => Paused(mapStyle') = {}]_vars

\* C39's case: an update() that found the style changed has sent the changed
\* layer of the vector source to the workers and has resumed the source.
C39_Witness ==
    /\ slog.op = "update"
    /\ Len(slog.sent) = 1
    /\ \E i \in 1..Len(slog.sent[1].layers) : slog.sent[1].layers[i].source = "source1"
    /\ "source1" \in DOMAIN mapStyle.sourceCaches
    /\ ~mapStyle.sourceCaches["source1"].paused
    /\ mapStyle._updatedSources = EmptyMap
    /\ ~mapStyle._changed

\* A source paused by setLayerZoomRange, before the update.
C39_PausedWitness ==
    /\ slog.op = "setLayerZoomRange"
    /\ Paused(mapStyle) = {"source1"}
    /\ "layer2" \in Range(mapStyle._updatedLayers)

----------------------------------------------------------------------------
(* Frames while the GPU context is lost (map.js) *)

\* _contextLost(event): the pending frame is cancelled; its callback will
\* not run.
_contextLost ==
    /\ ~contextLost
    /\ contextLost' = TRUE
    /\ _frame' = NoFrame
    /\ frames' = frames \ {_frame}
    /\ plog' = [op |-> "contextlost"]
    /\ rlog' = [NoSchedule EXCEPT !.op = "contextlost",
                                  !.pending = Cardinality(frames)]
    /\ UNCHANGED <<cache, programs, gpu, mapVars, placementVars, styleVars,
                   stencilVars, depthVars, frameVars, renderVars>>

\* The map after _contextRestored's call of this._update().
Restored(m) ==
    /\ styleDirty' = m.styleDirty
    /\ sourcesDirty' = m.sourcesDirty
    /\ _frame' = m._frame
    /\ frames' = m.frames
    /\ rlog' = [NoSchedule EXCEPT !.op = "contextrestored",
                                  !.calls = 1,
                                  !.asked = Asked(MapState, m)]

\* _contextRestored(event): this._setupPainter(), this.resize(),
\* this._update().
_contextRestored ==
    /\ contextLost
    /\ contextLost' = FALSE
    /\ cache' = _setupPainter(cache)
    /\ gpu' = [gpu EXCEPT !.program = NoProgram, !.invalidated = Len(programs)]
    /\ plog' = [op |-> "contextrestored"]
    /\ Restored(_update(MapState, FALSE))
    /\ UNCHANGED <<programs, placementDirty, fadeDuration, now, zoom, sourceTiles,
                   placementVars, styleVars, stencilVars, depthVars, frameVars,
                   renderVars>>

\* The map under calls that ask for frames, the frames, and losses and
\* restorations of the context.
NextLost ==
    TriggerRepaint \/ MapUpdate \/ FrameCallback \/ _contextLost \/ _contextRestored

SpecLost == InitFrame /\ [][NextLost]_vars

\* C40: between a GPU context-lost event and the matching context-restored
\* event no frame is rendered: the pending frame is cancelled at the loss, and
\* no style or map operation performed while the context is lost schedules a
\* frame before the painter has been rebuilt.
C40_NoFrameWhileContextLost ==
    contextLost =>
        /\ rlog.op # "frame"
        /\ _frame = NoFrame
        /\ frames = {}

\* The part of C40 the code has: the loss cancels the pending frame, and
\* while the context is lost a frame is pending or runs only after a call
\* that asked for one during the loss.
C40_CancelledAtLoss ==
    /\ rlog.op = "contextlost" => (contextLost /\ _frame = NoFrame /\ frames = {})
    /\ (contextLost /\ frames # {}) => rlog.op \in {"triggerRepaint", "_update", "frame"}
    /\ (~contextLost /\ rlog.op = "contextrestored") => _frame # NoFrame

\* A call of _update while the context is lost has asked for a frame.
C40_FrameAskedWhileLost ==
    /\ contextLost
    /\ rlog.op = "_update"
    /\ rlog.asked = 1
    /\ _frame # NoFrame

\* The frame asked for during the loss has run _render on the lost context.
C40_RenderedWhileLost ==
    /\ contextLost
    /\ rlog.op = "frame"
    /\ rlog.renders = 1
    /\ plog.op = "contextlost"

\* The loss has cancelled a frame that was pending.
C40_PendingFrameCancelled ==
    /\ contextLost
    /\ rlog.op = "contextlost"
    /\ rlog.pending = 1
    /\ frames = {}

====
